---- MODULE Spec2Model ----
\* A model of the santa logging runtime: the reference-counted lifecycle of
\* StandardLogger copies (Build, Duplicate, Close, the background flush task),
\* the setters of a copy, the interval of the flush task, and the entry
\* pipeline of Logger.Output.
EXTENDS Integers, Sequences, FiniteSets, TLC

\* ------------------------------------------------------------------ bounds

\* goroutines calling Duplicate and Close on the copies of one logger
NumThreads ==
    2

\* logger copies that can exist at once (the built logger plus duplicates)
MaxCopies ==
    3

\* goroutines calling Output on one Logger; the calls share no variable of
\* the model, each works on its own Entry
NumCallers ==
    1

\* hooks and exporters of a Logger built by Option.Build
MaxHooks ==
    2

MaxExporters ==
    2

\* setter calls made on the copies of one logger
MaxSetterCalls ==
    3

\* UseHooks calls made on the option before Build
MaxUseHooks ==
    3

\* the configured flush intervals run up to this many microseconds
MaxMicroseconds ==
    120

\* the largest number of Write calls on a syncer
MaxWrites ==
    3

\* goroutines calling Duplicate and Close while termination is examined
NumClosers ==
    1

\* the width in bits of the numeric slot of an Element (int64) and of a
\* uint64, scaled down from 64
WordBits ==
    16

\* --------------------------------------------------------------- constants

\* StandardOption.Build always installs the output and the error exporter
NumExporters ==
    2

\* time.Microsecond and time.Millisecond, in nanoseconds as time.Duration
Microsecond ==
    1000

Millisecond ==
    1000000

Threads ==
    1..NumThreads

Copies ==
    1..MaxCopies

Callers ==
    1..NumCallers

Exporters ==
    1..NumExporters

LoggerTypes ==
    {"StandardLogger", "StructLogger", "TemplateLogger"}

\* the error an exporter's Close may return, by exporter
ExporterCloseError ==
    [e \in Exporters |-> <<"close", e>>]

\* return values: nil, ErrClosed, and the mark of a call that has not returned
Nil ==
    <<"nil", 0>>

ErrClosed ==
    <<"ErrClosed", 0>>

Pending ==
    <<"pending", 0>>

\* the mark of a copy on which Close has not been called
NotCalled ==
    <<"none", 0>>

\* the log levels, lowest first
LevelDebug ==
    0

LevelInfo ==
    1

LevelWarning ==
    2

LevelError ==
    3

LevelFatal ==
    4

Levels ==
    LevelDebug..LevelFatal

\* Level.Enabled: a level is enabled when it is not below the minimum l
Enabled(l, level) ==
    level >= l

\* the messages passed to Output
Messages ==
    {"Hello Test!", "Bye Test!"}

\* the stack depth passed to Output: Print and the level functions pass 2
Stacks ==
    {2}

\* the error a hook's Print or an exporter's Export may return
HookError ==
    [h \in 1..MaxHooks |-> <<"print", h>>]

ExportError ==
    [e \in 1..MaxExporters |-> <<"export", e>>]

\* an Entry as allocated, and an Entry that was used before
ZeroEntry ==
    [Name |-> "", Level |-> LevelDebug, Time |-> "zero", Message |-> "nil",
     Labels |-> "nil", SourceLocation |-> <<"none", 0>>]

UsedEntry ==
    [Name |-> "used", Level |-> LevelFatal, Time |-> "used", Message |-> "used",
     Labels |-> "used", SourceLocation |-> <<"used", 0>>]

\* pool.Entry.New(): a new Entry or one that was freed before
PoolEntryNew ==
    {ZeroEntry, UsedEntry}

NoEntry ==
    [Name |-> "none", Level |-> LevelDebug, Time |-> "none", Message |-> "none",
     Labels |-> "none", SourceLocation |-> <<"none", 0>>]

\* newEntrySourceLocation(runtime.Caller(stacks))
newEntrySourceLocation(stacks) ==
    <<"caller", stacks>>

\* a goroutine that is not in Output
IdleCall ==
    [pc |-> "idle", stacks |-> 0, level |-> LevelDebug, message |-> "none",
     entry |-> NoEntry, index |-> 0, ret |-> Nil, acquired |-> 0,
     released |-> 0, sampled |-> "none", printed |-> <<>>, exported |-> <<>>]

\* the Logger of a StandardLogger built with the default options: both
\* exporters, the text sampler, no hooks
StandardLoggerFields ==
    [name |-> "", level |-> LevelDebug, sampler |-> TRUE, hooks |-> 0,
     exporters |-> NumExporters, labels |-> "labels", addSource |-> TRUE]

\* the names, samplers, label sets and hooks that the setters are given
Names ==
    {"", "testing"}

Samplers ==
    {"text", "custom"}

LabelSets ==
    {"labels", "name=testing"}

HookValues ==
    {"hookA", "hookB"}

\* a nil slice of hooks, and []Hook { }: no backing array, length and
\* capacity zero
NilHooks ==
    [array |-> 0, len |-> 0, cap |-> 0]

\* the capacity append gives the new backing array when a slice of capacity
\* cap is full and one element is appended
GrowCap(cap) ==
    IF cap = 0 THEN 1 ELSE 2 * cap

\* append(hooks, h) on the heap arrs of backing arrays: with spare capacity
\* the element is written into the backing array of hooks, otherwise into a
\* new array that takes over the elements of hooks
AppendHook(arrs, hooks, h) ==
    IF hooks.len < hooks.cap
      THEN [arrays |-> [arrs EXCEPT ![hooks.array][hooks.len + 1] = h],
            hooks |-> [hooks EXCEPT !.len = @ + 1]]
      ELSE [arrays |-> Append(arrs,
                         [i \in 1..GrowCap(hooks.cap) |->
                            IF i <= hooks.len THEN arrs[hooks.array][i]
                            ELSE IF i = hooks.len + 1 THEN h
                            ELSE "none"]),
            hooks |-> [array |-> Len(arrs) + 1, len |-> hooks.len + 1,
                       cap |-> GrowCap(hooks.cap)]]

\* o.Hooks after k calls of UseHooks with one hook each
RECURSIVE UseHooks(_)
UseHooks(k) ==
    IF k = 0
      THEN [arrays |-> <<>>, hooks |-> NilHooks]
      ELSE AppendHook(UseHooks(k - 1).arrays, UseHooks(k - 1).hooks, "option")

\* the Logger fields of a StandardLogger built with the default options and
\* the given hooks, and the fields of an instance that does not exist
BuiltFields(hooks) ==
    [name |-> "", level |-> LevelDebug, sampler |-> "text",
     labels |-> "labels", hooks |-> hooks]

NoFields ==
    [name |-> "none", level |-> LevelDebug, sampler |-> "none",
     labels |-> "none", hooks |-> NilHooks]

\* the flush intervals an option is given: 0 (no flushing), every whole
\* number of microseconds up to MaxMicroseconds, and some of milliseconds
Intervals ==
    {k * Microsecond : k \in 0..MaxMicroseconds}
      \cup {k * Millisecond : k \in {1, 50, 99, 100, 101, 1000}}

\* FlushingOption's default interval of 1 second
DefaultInterval ==
    1000 * Millisecond

\* no StandardOption.Build call, no FormatJSON call and no syncer
NoBuild ==
    [pc |-> "off"]

NoFormat ==
    [pc |-> "off"]

NoSink ==
    [pc |-> "off"]

\* ------------------------------------------------------------------- state

VARIABLES
    loggerType,         \* the logger type of the family built by Build
    copies,             \* the logger instances that exist
    closed,             \* closed[c]: the copy's own closed flag (0 or 1)
    contextReferences,  \* the shared reference count
    contextDone,        \* the shared context has been cancelled
    contextWaitGroup,   \* the shared wait group's counter
    flushPc,            \* position of the flushHandler goroutine
    flushIndex,         \* flushHandler: index of the Sync loop
    exporterSyncing,    \* exporterSyncing[e]: Sync calls running on exporter e
    exporterCloses,     \* exporterCloses[e]: Close calls made on exporter e
    pc,                 \* pc[t]: position of goroutine t in its call
    self,               \* self[t]: the copy the call is made on
    index,              \* index[t]: loop index of the call
    \* history
    everZero,           \* the reference count has been driven to zero
    zeroBy,             \* the copy whose Close drove the count to zero
    closedBy,           \* closedBy[e]: the copy whose Close closed exporter e
    closeFirst,         \* closeFirst[c]: result of the first Close call on c
    closeLater,         \* closeLater[c]: results of the later Close calls on c
    lastRelease,        \* the copy whose Close decremented the count last
    dupsThenCloses,     \* every Duplicate so far returned before the first Close was called
    dupLate,            \* dupLate[t]: the running Duplicate was called after the count reached zero
    lateCopy,           \* a Duplicate called after the count reached zero returned a copy
    flushSynced,        \* the flush task has called Sync at least once
    flushFailed,        \* the last l.Sync() of the flush task returned an error
    \* logger fields and setters
    fields,             \* fields[c]: the Logger fields of copy c
    arrays,             \* the backing arrays of the hook slices
    setterCalls,        \* the number of setter calls made
    \* flush interval
    flushingInterval,   \* o.Flushing.Interval of the option that was built
    interval,           \* flushHandler's interval
    \* entry pipeline
    logger,             \* the fields of the Logger that Output reads
    call,               \* call[t]: the Output call of goroutine t
    \* builders, formatters and sinks
    build,              \* the StandardOption.Build call
    format,             \* the FormatJSON call
    sink                \* the syncer

vars ==
    <<loggerType, copies, closed, contextReferences, contextDone,
      contextWaitGroup, flushPc, flushIndex, exporterSyncing, exporterCloses,
      pc, self, index, everZero, zeroBy, closedBy, closeFirst,
      closeLater, lastRelease, dupsThenCloses, dupLate, lateCopy, flushSynced,
      flushFailed, fields, arrays, setterCalls, flushingInterval, interval,
      logger, call, build, format, sink>>

flushVars ==
    <<flushPc, flushIndex, exporterSyncing, flushSynced, flushFailed>>

setterVars ==
    <<fields, arrays, setterCalls>>

intervalVars ==
    <<flushingInterval, interval>>

configVars ==
    <<setterVars, intervalVars>>

libraryVars ==
    <<build, format, sink>>

pipelineVars ==
    <<logger, call>>

closeHistory ==
    <<everZero, zeroBy, closedBy, closeFirst, closeLater, lastRelease>>

dupHistory ==
    <<dupsThenCloses, dupLate, lateCopy>>

\* the variables of the reference count, the Close calls and the flush task
runVars ==
    <<loggerType, copies, closed, contextReferences, contextDone,
      contextWaitGroup, exporterCloses, pc, self, index, flushVars,
      closeHistory, dupHistory>>

\* the variables of the logger, its copies, its flush task and its calls
programVars ==
    <<runVars, configVars, pipelineVars>>

\* ---------------------------------------------------------- StandardOption.Build

\* The state after StandardOption.Build (or StructOption/TemplateOption.Build)
\* returned a logger: reference count 1, a fresh context, and the flush task
\* started when the flushing interval is positive.
Init ==
    /\ loggerType \in LoggerTypes
    /\ copies = {1}
    /\ closed = [c \in Copies |-> 0]
    /\ contextReferences = 1
    /\ contextDone = FALSE
    /\ \E flushing \in BOOLEAN :
         /\ contextWaitGroup = IF flushing THEN 1 ELSE 0
         /\ flushPc = IF flushing THEN "select" ELSE "off"
    /\ flushIndex = 0
    /\ exporterSyncing = [e \in Exporters |-> 0]
    /\ exporterCloses = [e \in Exporters |-> 0]
    /\ pc = [t \in Threads |-> "idle"]
    /\ self = [t \in Threads |-> 0]
    /\ index = [t \in Threads |-> 0]
    /\ everZero = FALSE
    /\ zeroBy = 0
    /\ closedBy = [e \in Exporters |-> 0]
    /\ closeFirst = [c \in Copies |-> NotCalled]
    /\ closeLater = [c \in Copies |-> {}]
    /\ lastRelease = 0
    /\ dupsThenCloses = TRUE
    /\ dupLate = [t \in Threads |-> FALSE]
    /\ lateCopy = FALSE
    /\ flushSynced = FALSE
    /\ flushFailed = FALSE
    /\ fields = [c \in Copies |-> IF c = 1 THEN BuiltFields(NilHooks) ELSE NoFields]
    /\ arrays = <<>>
    /\ setterCalls = 0
    /\ flushingInterval = DefaultInterval
    /\ interval = DefaultInterval
    /\ logger = StandardLoggerFields
    /\ call = [t \in Callers |-> IdleCall]
    /\ build = NoBuild
    /\ format = NoFormat
    /\ sink = NoSink

\* ------------------------------------------------------------ Duplicate

\* a Close has been called on some copy
SomeCloseCalled ==
    \E c \in copies : closeFirst[c] # NotCalled

\* copies for which room is reserved: existing ones and those being made
CopiesInUse ==
    Cardinality(copies) + Cardinality({t \in Threads : pc[t] = "dup_copy"})

\* the instance a Duplicate in progress will return
NewCopy ==
    CHOOSE n \in Copies \ copies : \A m \in Copies \ copies : n <= m

\* atomic.AddInt32(l.contextReferences, 1) == 1: the logger has been shut
\* down and Duplicate returns nil; otherwise it goes on to copy the instance.
AddReference(t, c) ==
    /\ pc[t] = "idle"
    /\ c \in copies
    /\ CopiesInUse < MaxCopies
    /\ contextReferences' = contextReferences + 1
    /\ dupsThenCloses' = (dupsThenCloses /\ ~SomeCloseCalled)
    /\ IF contextReferences' = 1
         THEN UNCHANGED <<pc, self, dupLate>>
         ELSE /\ pc' = [pc EXCEPT ![t] = "dup_copy"]
              /\ self' = [self EXCEPT ![t] = c]
              /\ dupLate' = [dupLate EXCEPT ![t] = everZero]
    /\ UNCHANGED lateCopy
    /\ UNCHANGED <<loggerType, copies, closed, contextDone, contextWaitGroup,
                   exporterCloses, index>>
    /\ UNCHANGED flushVars
    /\ UNCHANGED pipelineVars
    /\ UNCHANGED libraryVars
    /\ UNCHANGED configVars
    /\ UNCHANGED closeHistory

\* instance := *l; return &instance: the copy takes every field of l as it is
\* now, the closed flag included.
CopyInstance(t) ==
    /\ pc[t] = "dup_copy"
    /\ copies' = copies \cup {NewCopy}
    /\ closed' = [closed EXCEPT ![NewCopy] = closed[self[t]]]
    /\ lateCopy' = (lateCopy \/ dupLate[t])
    /\ dupLate' = [dupLate EXCEPT ![t] = FALSE]
    /\ pc' = [pc EXCEPT ![t] = "idle"]
    /\ self' = [self EXCEPT ![t] = 0]
    /\ fields' = [fields EXCEPT ![NewCopy] = fields[self[t]]]
    /\ UNCHANGED <<loggerType, contextReferences, contextDone, contextWaitGroup,
                   exporterCloses, index, dupsThenCloses>>
    /\ UNCHANGED <<arrays, setterCalls>>
    /\ UNCHANGED intervalVars
    /\ UNCHANGED flushVars
    /\ UNCHANGED pipelineVars
    /\ UNCHANGED libraryVars
    /\ UNCHANGED closeHistory

StandardLoggerDuplicate(t, c) ==
    /\ loggerType = "StandardLogger"
    /\ AddReference(t, c)

StructLoggerDuplicate(t, c) ==
    /\ loggerType = "StructLogger"
    /\ AddReference(t, c)

TemplateLoggerDuplicate(t, c) ==
    /\ loggerType = "TemplateLogger"
    /\ AddReference(t, c)

\* ---------------------------------------------------------------- Close

\* a Close call on c begins, with result v or the pending mark
CloseBegin(c, v) ==
    IF closeFirst[c] = NotCalled
      THEN /\ closeFirst' = [closeFirst EXCEPT ![c] = v]
           /\ UNCHANGED closeLater
      ELSE /\ closeLater' = [closeLater EXCEPT ![c] = @ \cup {v}]
           /\ UNCHANGED closeFirst

\* the result of the Close call of t is v: it replaces the pending mark of
\* the call in the results of the copy
CloseReturn(t, v) ==
    /\ IF closeFirst[self[t]] = Pending
         THEN /\ closeFirst' = [closeFirst EXCEPT ![self[t]] = v]
              /\ UNCHANGED closeLater
         ELSE /\ closeLater' = [closeLater EXCEPT ![self[t]] = (@ \ {Pending}) \cup {v}]
              /\ UNCHANGED closeFirst
    /\ pc' = [pc EXCEPT ![t] = "idle"]
    /\ self' = [self EXCEPT ![t] = 0]
    /\ index' = [index EXCEPT ![t] = 0]

\* Close without the guard of the copy's own closed flag: every call goes on
\* to release a reference
CloseCallUnguarded(t, c) ==
    /\ pc[t] = "idle"
    /\ c \in copies
    /\ \A u \in Threads : self[u] # c
    /\ contextReferences > -1
    /\ closed' = [closed EXCEPT ![c] = 1]
    /\ CloseBegin(c, Pending)
    /\ pc' = [pc EXCEPT ![t] = "close_release"]
    /\ self' = [self EXCEPT ![t] = c]
    /\ UNCHANGED <<loggerType, copies, contextReferences, contextDone,
                   contextWaitGroup, exporterCloses, index, everZero, zeroBy,
                   closedBy, lastRelease, dupLate, lateCopy>>
    /\ dupsThenCloses' = (dupsThenCloses /\ \A u \in Threads : pc[u] # "dup_copy")
    /\ UNCHANGED flushVars
    /\ UNCHANGED pipelineVars
    /\ UNCHANGED libraryVars
    /\ UNCHANGED configVars

\* if !atomic.CompareAndSwapInt32(&l.closed, 0, 1) { return ErrClosed }
CloseCall(t, c) ==
    /\ pc[t] = "idle"
    /\ c \in copies
    /\ IF closed[c] = 0
         THEN /\ closed' = [closed EXCEPT ![c] = 1]
              /\ CloseBegin(c, Pending)
              /\ pc' = [pc EXCEPT ![t] = "close_release"]
              /\ self' = [self EXCEPT ![t] = c]
         ELSE /\ CloseBegin(c, ErrClosed)
              /\ UNCHANGED <<closed, pc, self>>
    /\ UNCHANGED <<loggerType, copies, contextReferences, contextDone,
                   contextWaitGroup, exporterCloses, index, everZero, zeroBy,
                   closedBy, lastRelease, dupLate, lateCopy>>
    /\ dupsThenCloses' = (dupsThenCloses /\ \A u \in Threads : pc[u] # "dup_copy")
    /\ UNCHANGED flushVars
    /\ UNCHANGED pipelineVars
    /\ UNCHANGED libraryVars
    /\ UNCHANGED configVars

\* the switch of Close with "references > 1" for "references > 0": the Close
\* that leaves one reference tears down as well
CloseReleaseOffByOne(t) ==
    /\ pc[t] = "close_release"
    /\ contextReferences' = contextReferences - 1
    /\ lastRelease' = self[t]
    /\ IF contextReferences' > 1
         THEN /\ CloseReturn(t, Nil)
              /\ UNCHANGED <<everZero, zeroBy>>
         ELSE IF contextReferences' < 0
         THEN /\ CloseReturn(t, ErrClosed)
              /\ UNCHANGED <<everZero, zeroBy>>
         ELSE /\ pc' = [pc EXCEPT ![t] = "close_cancel"]
              /\ everZero' = (everZero \/ contextReferences' = 0)
              /\ zeroBy' = IF contextReferences' = 0 THEN self[t] ELSE zeroBy
              /\ UNCHANGED <<self, index, closeFirst, closeLater>>
    /\ UNCHANGED <<loggerType, copies, closed, contextDone, contextWaitGroup,
                   exporterCloses, closedBy>>
    /\ UNCHANGED flushVars
    /\ UNCHANGED pipelineVars
    /\ UNCHANGED libraryVars
    /\ UNCHANGED configVars
    /\ UNCHANGED dupHistory

\* Close cancelling the shared context before it looks at the count
CloseReleaseCancelsFirst(t) ==
    /\ pc[t] = "close_release"
    /\ contextReferences' = contextReferences - 1
    /\ lastRelease' = self[t]
    /\ contextDone' = TRUE
    /\ IF contextReferences' > 0
         THEN /\ CloseReturn(t, Nil)
              /\ UNCHANGED <<everZero, zeroBy>>
         ELSE IF contextReferences' < 0
         THEN /\ CloseReturn(t, ErrClosed)
              /\ UNCHANGED <<everZero, zeroBy>>
         ELSE /\ pc' = [pc EXCEPT ![t] = "close_cancel"]
              /\ everZero' = TRUE
              /\ zeroBy' = self[t]
              /\ UNCHANGED <<self, index, closeFirst, closeLater>>
    /\ UNCHANGED <<loggerType, copies, closed, contextWaitGroup,
                   exporterCloses, closedBy>>
    /\ UNCHANGED flushVars
    /\ UNCHANGED pipelineVars
    /\ UNCHANGED libraryVars
    /\ UNCHANGED configVars
    /\ UNCHANGED dupHistory

\* references := atomic.AddInt32(l.contextReferences, -1) and the switch on it
CloseRelease(t) ==
    /\ pc[t] = "close_release"
    /\ contextReferences' = contextReferences - 1
    /\ lastRelease' = self[t]
    /\ IF contextReferences' > 0
         THEN /\ CloseReturn(t, Nil)
              /\ UNCHANGED <<everZero, zeroBy>>
         ELSE IF contextReferences' < 0
         THEN /\ CloseReturn(t, ErrClosed)
              /\ UNCHANGED <<everZero, zeroBy>>
         ELSE /\ pc' = [pc EXCEPT ![t] = "close_cancel"]
              /\ everZero' = TRUE
              /\ zeroBy' = self[t]
              /\ UNCHANGED <<self, index, closeFirst, closeLater>>
    /\ UNCHANGED <<loggerType, copies, closed, contextDone, contextWaitGroup,
                   exporterCloses, closedBy>>
    /\ UNCHANGED flushVars
    /\ UNCHANGED pipelineVars
    /\ UNCHANGED libraryVars
    /\ UNCHANGED configVars
    /\ UNCHANGED dupHistory

\* l.contextCancel()
CloseCancel(t) ==
    /\ pc[t] = "close_cancel"
    /\ contextDone' = TRUE
    /\ pc' = [pc EXCEPT ![t] = "close_wait"]
    /\ UNCHANGED <<loggerType, copies, closed, contextReferences,
                   contextWaitGroup, exporterCloses, self, index>>
    /\ UNCHANGED flushVars
    /\ UNCHANGED pipelineVars
    /\ UNCHANGED libraryVars
    /\ UNCHANGED configVars
    /\ UNCHANGED closeHistory
    /\ UNCHANGED dupHistory

\* Close going on to the exporters without waiting for the wait group
CloseWaitSkipped(t) ==
    /\ pc[t] = "close_wait"
    /\ pc' = [pc EXCEPT ![t] = "close_exporters"]
    /\ index' = [index EXCEPT ![t] = 1]
    /\ UNCHANGED <<loggerType, copies, closed, contextReferences, contextDone,
                   contextWaitGroup, exporterCloses, self>>
    /\ UNCHANGED flushVars
    /\ UNCHANGED pipelineVars
    /\ UNCHANGED libraryVars
    /\ UNCHANGED configVars
    /\ UNCHANGED closeHistory
    /\ UNCHANGED dupHistory

\* l.contextWaitGroup.Wait(): returns once the counter is zero
CloseWait(t) ==
    /\ pc[t] = "close_wait"
    /\ contextWaitGroup = 0
    /\ pc' = [pc EXCEPT ![t] = "close_exporters"]
    /\ index' = [index EXCEPT ![t] = 1]
    /\ UNCHANGED <<loggerType, copies, closed, contextReferences, contextDone,
                   contextWaitGroup, exporterCloses, self>>
    /\ UNCHANGED flushVars
    /\ UNCHANGED pipelineVars
    /\ UNCHANGED libraryVars
    /\ UNCHANGED configVars
    /\ UNCHANGED closeHistory
    /\ UNCHANGED dupHistory

\* one round of the loop over l.exporters: Close the exporter at index and
\* return its error if it has one; after the last exporter return nil
CloseExporters(t) ==
    /\ pc[t] = "close_exporters"
    /\ IF index[t] > NumExporters
         THEN /\ CloseReturn(t, Nil)
              /\ UNCHANGED <<exporterCloses, closedBy>>
         ELSE /\ exporterCloses' = [exporterCloses EXCEPT ![index[t]] = @ + 1]
              /\ closedBy' = [closedBy EXCEPT ![index[t]] = self[t]]
              /\ \E err \in {Nil, ExporterCloseError[index[t]]} :
                   IF err # Nil
                     THEN CloseReturn(t, err)
                     ELSE /\ index' = [index EXCEPT ![t] = @ + 1]
                          /\ UNCHANGED <<pc, self, closeFirst, closeLater>>
    /\ UNCHANGED <<loggerType, copies, closed, contextReferences, contextDone,
                   contextWaitGroup, everZero, zeroBy, lastRelease>>
    /\ UNCHANGED flushVars
    /\ UNCHANGED pipelineVars
    /\ UNCHANGED libraryVars
    /\ UNCHANGED configVars
    /\ UNCHANGED dupHistory

\* -------------------------------------------------------- flushHandler

callerVars ==
    <<loggerType, copies, closed, contextReferences, contextDone,
      exporterCloses, pc, self, index>>

\* case <-time.After(interval): the timer fires and a Sync round begins
FlushTick ==
    /\ flushPc = "select"
    /\ flushPc' = "sync"
    /\ flushIndex' = 1
    /\ UNCHANGED <<contextWaitGroup, exporterSyncing, flushSynced, flushFailed>>
    /\ UNCHANGED callerVars
    /\ UNCHANGED pipelineVars
    /\ UNCHANGED libraryVars
    /\ UNCHANGED configVars
    /\ UNCHANGED closeHistory
    /\ UNCHANGED dupHistory

\* l.Sync(): the loop calls Sync on the exporter at the index, or ends
FlushSyncCall ==
    /\ flushPc = "sync"
    /\ IF flushIndex > NumExporters
         THEN /\ flushPc' = "select"
              /\ flushIndex' = 0
              /\ flushFailed' = FALSE
              /\ UNCHANGED <<exporterSyncing, flushSynced>>
         ELSE /\ flushPc' = "in_sync"
              /\ exporterSyncing' = [exporterSyncing EXCEPT ![flushIndex] = @ + 1]
              /\ flushSynced' = TRUE
              /\ UNCHANGED <<flushIndex, flushFailed>>
    /\ UNCHANGED contextWaitGroup
    /\ UNCHANGED callerVars
    /\ UNCHANGED pipelineVars
    /\ UNCHANGED libraryVars
    /\ UNCHANGED configVars
    /\ UNCHANGED closeHistory
    /\ UNCHANGED dupHistory

\* a flushHandler that returns when l.Sync() returned an error
FlushSyncReturnExits ==
    /\ flushPc = "in_sync"
    /\ exporterSyncing' = [exporterSyncing EXCEPT ![flushIndex] = @ - 1]
    /\ \E failed \in BOOLEAN :
         IF failed
           THEN /\ flushPc' = "exited"
                /\ flushIndex' = 0
                /\ flushFailed' = TRUE
                /\ contextWaitGroup' = contextWaitGroup - 1
           ELSE /\ flushPc' = "sync"
                /\ flushIndex' = flushIndex + 1
                /\ UNCHANGED <<flushFailed, contextWaitGroup>>
    /\ UNCHANGED flushSynced
    /\ UNCHANGED callerVars
    /\ UNCHANGED pipelineVars
    /\ UNCHANGED libraryVars
    /\ UNCHANGED configVars
    /\ UNCHANGED closeHistory
    /\ UNCHANGED dupHistory

\* the exporter's Sync returns; an error ends l.Sync, and flushHandler
\* discards it
FlushSyncReturn ==
    /\ flushPc = "in_sync"
    /\ exporterSyncing' = [exporterSyncing EXCEPT ![flushIndex] = @ - 1]
    /\ \E failed \in BOOLEAN :
         IF failed
           THEN /\ flushPc' = "select"
                /\ flushIndex' = 0
                /\ flushFailed' = TRUE
           ELSE /\ flushPc' = "sync"
                /\ flushIndex' = flushIndex + 1
                /\ UNCHANGED flushFailed
    /\ UNCHANGED <<contextWaitGroup, flushSynced>>
    /\ UNCHANGED callerVars
    /\ UNCHANGED pipelineVars
    /\ UNCHANGED libraryVars
    /\ UNCHANGED configVars
    /\ UNCHANGED closeHistory
    /\ UNCHANGED dupHistory

\* a flushHandler that returns without contextWaitGroup.Done()
FlushExitWithoutDone ==
    /\ flushPc = "select"
    /\ contextDone
    /\ flushPc' = "exited"
    /\ UNCHANGED <<contextWaitGroup, flushIndex, exporterSyncing, flushSynced,
                   flushFailed>>
    /\ UNCHANGED callerVars
    /\ UNCHANGED pipelineVars
    /\ UNCHANGED libraryVars
    /\ UNCHANGED configVars
    /\ UNCHANGED closeHistory
    /\ UNCHANGED dupHistory

\* case <-l.context.Done(): return, and the deferred contextWaitGroup.Done()
FlushExit ==
    /\ flushPc = "select"
    /\ contextDone
    /\ flushPc' = "exited"
    /\ contextWaitGroup' = contextWaitGroup - 1
    /\ UNCHANGED <<flushIndex, exporterSyncing, flushSynced, flushFailed>>
    /\ UNCHANGED callerVars
    /\ UNCHANGED pipelineVars
    /\ UNCHANGED libraryVars
    /\ UNCHANGED configVars
    /\ UNCHANGED closeHistory
    /\ UNCHANGED dupHistory

\* the first statements of flushHandler: an interval below
\* time.Microsecond * 100 is raised to it
FlushStart ==
    /\ flushPc = "start"
    /\ interval' = IF interval < Microsecond * 100
                     THEN Microsecond * 100
                     ELSE interval
    /\ flushPc' = "select"
    /\ UNCHANGED <<flushIndex, exporterSyncing, flushSynced, flushFailed>>
    /\ UNCHANGED <<contextWaitGroup, flushingInterval>>
    /\ UNCHANGED callerVars
    /\ UNCHANGED pipelineVars
    /\ UNCHANGED libraryVars
    /\ UNCHANGED setterVars
    /\ UNCHANGED closeHistory
    /\ UNCHANGED dupHistory

\* StandardOption.Build with o.Flushing.Interval drawn from Intervals: the
\* flush task is started with it when it is positive
InitFlush ==
    /\ loggerType = "StandardLogger"
    /\ copies = {1}
    /\ closed = [c \in Copies |-> 0]
    /\ contextReferences = 1
    /\ contextDone = FALSE
    /\ flushingInterval \in Intervals
    /\ interval = flushingInterval
    /\ contextWaitGroup = IF flushingInterval > 0 THEN 1 ELSE 0
    /\ flushPc = IF flushingInterval > 0 THEN "start" ELSE "off"
    /\ flushIndex = 0
    /\ exporterSyncing = [e \in Exporters |-> 0]
    /\ exporterCloses = [e \in Exporters |-> 0]
    /\ pc = [t \in Threads |-> "idle"]
    /\ self = [t \in Threads |-> 0]
    /\ index = [t \in Threads |-> 0]
    /\ everZero = FALSE
    /\ zeroBy = 0
    /\ closedBy = [e \in Exporters |-> 0]
    /\ closeFirst = [c \in Copies |-> NotCalled]
    /\ closeLater = [c \in Copies |-> {}]
    /\ lastRelease = 0
    /\ dupsThenCloses = TRUE
    /\ dupLate = [t \in Threads |-> FALSE]
    /\ lateCopy = FALSE
    /\ flushSynced = FALSE
    /\ flushFailed = FALSE
    /\ fields = [c \in Copies |-> IF c = 1 THEN BuiltFields(NilHooks) ELSE NoFields]
    /\ arrays = <<>>
    /\ setterCalls = 0
    /\ logger = StandardLoggerFields
    /\ call = [t \in Callers |-> IdleCall]
    /\ build = NoBuild
    /\ format = NoFormat
    /\ sink = NoSink

NextFlush ==
    \/ FlushStart
    \/ FlushTick
    \/ FlushSyncCall
    \/ FlushSyncReturn

SpecFlush ==
    InitFlush /\ [][NextFlush]_vars

\* -------------------------------------------------------------- setters

\* l.name = name
SetName(c, name) ==
    /\ c \in copies
    /\ setterCalls < MaxSetterCalls
    /\ setterCalls' = setterCalls + 1
    /\ fields' = [fields EXCEPT ![c].name = name]
    /\ UNCHANGED arrays
    /\ UNCHANGED <<runVars, intervalVars, pipelineVars>>
    /\ UNCHANGED libraryVars

\* l.level = level
SetLevel(c, level) ==
    /\ c \in copies
    /\ setterCalls < MaxSetterCalls
    /\ setterCalls' = setterCalls + 1
    /\ fields' = [fields EXCEPT ![c].level = level]
    /\ UNCHANGED arrays
    /\ UNCHANGED <<runVars, intervalVars, pipelineVars>>
    /\ UNCHANGED libraryVars

\* l.sampler = sampler
SetSampler(c, sampler) ==
    /\ c \in copies
    /\ setterCalls < MaxSetterCalls
    /\ setterCalls' = setterCalls + 1
    /\ fields' = [fields EXCEPT ![c].sampler = sampler]
    /\ UNCHANGED arrays
    /\ UNCHANGED <<runVars, intervalVars, pipelineVars>>
    /\ UNCHANGED libraryVars

\* l.labels = NewSerializedLabels(labels...)
SetLabels(c, labels) ==
    /\ c \in copies
    /\ setterCalls < MaxSetterCalls
    /\ setterCalls' = setterCalls + 1
    /\ fields' = [fields EXCEPT ![c].labels = labels]
    /\ UNCHANGED arrays
    /\ UNCHANGED <<runVars, intervalVars, pipelineVars>>
    /\ UNCHANGED libraryVars

\* l.hooks = append(l.hooks, hook)
AddHooks(c, hook) ==
    /\ c \in copies
    /\ setterCalls < MaxSetterCalls
    /\ setterCalls' = setterCalls + 1
    /\ arrays' = AppendHook(arrays, fields[c].hooks, hook).arrays
    /\ fields' = [fields EXCEPT ![c].hooks =
                     AppendHook(arrays, fields[c].hooks, hook).hooks]
    /\ UNCHANGED <<runVars, intervalVars, pipelineVars>>
    /\ UNCHANGED libraryVars

\* l.hooks = []Hook { }
ResetHooks(c) ==
    /\ c \in copies
    /\ setterCalls < MaxSetterCalls
    /\ setterCalls' = setterCalls + 1
    /\ fields' = [fields EXCEPT ![c].hooks = NilHooks]
    /\ UNCHANGED arrays
    /\ UNCHANGED <<runVars, intervalVars, pipelineVars>>
    /\ UNCHANGED libraryVars

\* StandardOption.Build of an option whose Hooks were given by up to
\* MaxUseHooks calls of UseHooks, without flushing
InitSetters ==
    /\ loggerType = "StandardLogger"
    /\ copies = {1}
    /\ closed = [c \in Copies |-> 0]
    /\ contextReferences = 1
    /\ contextDone = FALSE
    /\ contextWaitGroup = 0
    /\ flushPc = "off"
    /\ flushIndex = 0
    /\ exporterSyncing = [e \in Exporters |-> 0]
    /\ exporterCloses = [e \in Exporters |-> 0]
    /\ pc = [t \in Threads |-> "idle"]
    /\ self = [t \in Threads |-> 0]
    /\ index = [t \in Threads |-> 0]
    /\ everZero = FALSE
    /\ zeroBy = 0
    /\ closedBy = [e \in Exporters |-> 0]
    /\ closeFirst = [c \in Copies |-> NotCalled]
    /\ closeLater = [c \in Copies |-> {}]
    /\ lastRelease = 0
    /\ dupsThenCloses = TRUE
    /\ dupLate = [t \in Threads |-> FALSE]
    /\ lateCopy = FALSE
    /\ flushSynced = FALSE
    /\ flushFailed = FALSE
    /\ \E k \in 0..MaxUseHooks :
         /\ arrays = UseHooks(k).arrays
         /\ fields = [c \in Copies |-> IF c = 1 THEN BuiltFields(UseHooks(k).hooks)
                                                ELSE NoFields]
    /\ setterCalls = 0
    /\ flushingInterval = 0
    /\ interval = 0
    /\ logger = StandardLoggerFields
    /\ call = [t \in Callers |-> IdleCall]
    /\ build = NoBuild
    /\ format = NoFormat
    /\ sink = NoSink

NextSetters ==
    \/ \E t \in Threads, c \in Copies : StandardLoggerDuplicate(t, c)
    \/ \E t \in Threads : CopyInstance(t)
    \/ \E c \in Copies, name \in Names : SetName(c, name)
    \/ \E c \in Copies, level \in Levels : SetLevel(c, level)
    \/ \E c \in Copies, sampler \in Samplers : SetSampler(c, sampler)
    \/ \E c \in Copies, labels \in LabelSets : SetLabels(c, labels)
    \/ \E c \in Copies, hook \in HookValues : AddHooks(c, hook)
    \/ \E c \in Copies : ResetHooks(c)

SpecSetters ==
    InitSetters /\ [][NextSetters]_vars

\* atomic.LoadInt32(&l.closed) == 1
IsClosed(c) ==
    closed[c] = 1

\* ------------------------------------------------------- option builders

\* the values of SamplingOption.Type, EncodingOption.Type and
\* OutputtingOption.Type: the supported ones, the empty one and another one
SamplerText ==
    "text"

EncoderStandard ==
    "standard"

EncoderJSON ==
    "json"

SyncerStandard ==
    "standard"

SyncerFile ==
    "file"

SyncerNetwork ==
    "network"

SyncerDiscard ==
    "discard"

SamplerTypes ==
    {"", SamplerText, "unknown"}

EncoderTypes ==
    {"", EncoderStandard, EncoderJSON, "unknown"}

SyncerTypes ==
    {"", SyncerStandard, SyncerFile, SyncerNetwork, SyncerDiscard, "unknown"}

\* the dynamic types the Option field (an interface { }) can hold
OptionPayloads ==
    {"nil", "*TextSamplerOption", "*StandardEncoderOption", "*JSONEncoderOption",
     "*StandardSyncerOption", "*FileSyncerOption", "*NetworkSyncerOption"}

ErrInvalidType ==
    <<"ErrInvalidType", 0>>

\* the error of a builder that could not make its instance (a file that
\* cannot be opened, an address that cannot be dialled)
BuilderError ==
    <<"builder", 0>>

\* what a Build call comes to: an instance, an error, or a panic
Built(value) ==
    [kind |-> "ok", value |-> value, err |-> Nil]

Failed(err) ==
    [kind |-> "error", value |-> "nil", err |-> err]

Panicked ==
    [kind |-> "panic", value |-> "nil", err |-> Nil]

\* the Build of a concrete option: the instance or an error
ConcreteBuild(value) ==
    {Built(value), Failed(BuilderError)}

\* SamplingOption.Build without its default case
SamplingOptionBuildAnyType(type, option) ==
    IF type = ""
      THEN {Built("nil")}
      ELSE IF option = "*TextSamplerOption"
             THEN ConcreteBuild("TextSampler")
             ELSE {Panicked}

\* SamplingOption.Build: o.Option.(*TextSamplerOption) panics when Option
\* holds anything else
SamplingOptionBuild(type, option) ==
    IF type = ""
      THEN {Built("nil")}
      ELSE IF type = SamplerText
             THEN IF option = "*TextSamplerOption"
                    THEN ConcreteBuild("TextSampler")
                    ELSE {Panicked}
             ELSE {Failed(ErrInvalidType)}

\* EncodingOption.Build
EncodingOptionBuild(type, option) ==
    IF type = EncoderStandard
      THEN IF option = "*StandardEncoderOption"
             THEN ConcreteBuild("StandardEncoder")
             ELSE {Panicked}
      ELSE IF type = EncoderJSON
             THEN IF option = "*JSONEncoderOption"
                    THEN ConcreteBuild("JSONEncoder")
                    ELSE {Panicked}
             ELSE {Failed(ErrInvalidType)}

\* OutputtingOption.Build: with DisableCache the option is asserted once
\* more, to set its capacity to 0, before it is asserted to be built
OutputtingOptionBuild(type, option, disableCache) ==
    IF type = SyncerStandard
      THEN IF option = "*StandardSyncerOption"
             THEN ConcreteBuild("StandardSyncer")
             ELSE {Panicked}
      ELSE IF type = SyncerFile
             THEN IF option = "*FileSyncerOption"
                    THEN ConcreteBuild("FileSyncer")
                    ELSE {Panicked}
      ELSE IF type = SyncerNetwork
             THEN IF option = "*NetworkSyncerOption"
                    THEN ConcreteBuild("NetworkSyncer")
                    ELSE {Panicked}
      ELSE IF type = SyncerDiscard
             THEN ConcreteBuild("DiscardSyncer")
             ELSE {Failed(ErrInvalidType)}

\* Option.Build: always a Logger and a nil error
OptionBuild ==
    {Built("Logger")}

\* the syncer an exporter was built with
SyncerOf(resource) ==
    IF resource = "exporter" THEN "syncer" ELSE "errorSyncer"

\* exporter.Close(): the exporter and its syncer are closed
ExporterClosed(open, exporter) ==
    open \ {exporter, SyncerOf(exporter)}

\* syncer.Close()
SyncerClosed(open, syncer) ==
    open \ {syncer}

\* the logger as it is before StandardOption.Build has made it
InitProgram ==
    /\ loggerType = "StandardLogger"
    /\ copies = {}
    /\ closed = [c \in Copies |-> 0]
    /\ contextReferences = 0
    /\ contextDone = FALSE
    /\ contextWaitGroup = 0
    /\ flushPc = "off"
    /\ flushIndex = 0
    /\ exporterSyncing = [e \in Exporters |-> 0]
    /\ exporterCloses = [e \in Exporters |-> 0]
    /\ pc = [t \in Threads |-> "idle"]
    /\ self = [t \in Threads |-> 0]
    /\ index = [t \in Threads |-> 0]
    /\ everZero = FALSE
    /\ zeroBy = 0
    /\ closedBy = [e \in Exporters |-> 0]
    /\ closeFirst = [c \in Copies |-> NotCalled]
    /\ closeLater = [c \in Copies |-> {}]
    /\ lastRelease = 0
    /\ dupsThenCloses = TRUE
    /\ dupLate = [t \in Threads |-> FALSE]
    /\ lateCopy = FALSE
    /\ flushSynced = FALSE
    /\ flushFailed = FALSE
    /\ fields = [c \in Copies |-> NoFields]
    /\ arrays = <<>>
    /\ setterCalls = 0
    /\ flushingInterval = 0
    /\ interval = 0
    /\ logger = StandardLoggerFields
    /\ call = [t \in Callers |-> IdleCall]

\* StandardOption.Build is called
InitBuild ==
    /\ InitProgram
    /\ build = [pc |-> "sampler", step |-> "none", type |-> "", option |-> "nil",
                ret |-> Pending, made |-> {}, open |-> {}, flushing |-> FALSE]
    /\ format = NoFormat
    /\ sink = NoSink

\* a step of StandardOption.Build: the builder of the step, given type and
\* option, came to r. A panic ends the call; an error is returned after the
\* built instances in unwind were closed; an instance is kept and, when it is
\* a syncer or exporter named by resource, open.
BuildStep(step, type, option, r, next, resource, unwound) ==
    build' = [build EXCEPT
                !.step = step, !.type = type, !.option = option,
                !.pc = IF r.kind = "panic" THEN "panic"
                       ELSE IF r.kind = "error" THEN "done" ELSE next,
                !.ret = IF r.kind = "error" THEN r.err ELSE @,
                !.made = IF r.kind = "ok" THEN @ \cup {step} ELSE @,
                !.open = IF r.kind = "ok" THEN @ \cup resource
                         ELSE IF r.kind = "error" THEN unwound ELSE @]

\* sampler, err := o.Sampling.Build()
BuildSampler ==
    /\ build.pc = "sampler"
    /\ \E type \in SamplerTypes, option \in OptionPayloads :
         \E r \in SamplingOptionBuild(type, option) :
            BuildStep("sampler", type, option, r, "encoder", {}, build.open)
    /\ UNCHANGED <<format, sink, programVars>>

\* encoder, err := o.Encoding.Build()
BuildEncoder ==
    /\ build.pc = "encoder"
    /\ \E type \in EncoderTypes, option \in OptionPayloads :
         \E r \in EncodingOptionBuild(type, option) :
            BuildStep("encoder", type, option, r, "syncer", {}, build.open)
    /\ UNCHANGED <<format, sink, programVars>>

\* syncer, err := o.Outputting.Build()
BuildSyncer ==
    /\ build.pc = "syncer"
    /\ \E type \in SyncerTypes, option \in OptionPayloads, disableCache \in BOOLEAN :
         \E r \in OutputtingOptionBuild(type, option, disableCache) :
            BuildStep("syncer", type, option, r, "exporter", {"syncer"}, build.open)
    /\ UNCHANGED <<format, sink, programVars>>

\* exporter, err := NewStandardExporterOption()...Build(); on an error
\* syncer.Close()
BuildExporter ==
    /\ build.pc = "exporter"
    /\ \E r \in ConcreteBuild("StandardExporter") :
         BuildStep("exporter", "", "nil", r, "errorSyncer", {"exporter"},
                   SyncerClosed(build.open, "syncer"))
    /\ UNCHANGED <<format, sink, programVars>>

\* errorSyncer, err := o.ErrorOutputting.Build(); on an error exporter.Close()
BuildErrorSyncer ==
    /\ build.pc = "errorSyncer"
    /\ \E type \in SyncerTypes, option \in OptionPayloads, disableCache \in BOOLEAN :
         \E r \in OutputtingOptionBuild(type, option, disableCache) :
            BuildStep("errorSyncer", type, option, r, "errorExporter", {"errorSyncer"},
                      ExporterClosed(build.open, "exporter"))
    /\ UNCHANGED <<format, sink, programVars>>

\* the error exporter's failure closing the exporter only
BuildErrorExporterLeaks ==
    /\ build.pc = "errorExporter"
    /\ \E r \in ConcreteBuild("StandardExporter") :
         BuildStep("errorExporter", "", "nil", r, "logger", {"errorExporter"},
                   ExporterClosed(build.open, "exporter"))
    /\ UNCHANGED <<format, sink, programVars>>

\* errorExporter, err := NewStandardExporterOption()...Build(); on an error
\* exporter.Close() and errorSyncer.Close()
BuildErrorExporter ==
    /\ build.pc = "errorExporter"
    /\ \E r \in ConcreteBuild("StandardExporter") :
         BuildStep("errorExporter", "", "nil", r, "logger", {"errorExporter"},
                   SyncerClosed(ExporterClosed(build.open, "exporter"), "errorSyncer"))
    /\ UNCHANGED <<format, sink, programVars>>

\* logger, err := (&Option { ... }).Build(); on an error exporter.Close() and
\* errorSyncer.Close()
BuildLogger ==
    /\ build.pc = "logger"
    /\ \E r \in OptionBuild :
         BuildStep("logger", "", "nil", r, "instance", {},
                   SyncerClosed(ExporterClosed(build.open, "exporter"), "errorSyncer"))
    /\ UNCHANGED <<format, sink, programVars>>

\* the instance is made, the flush task is started when o.Flushing.Interval
\* is positive, and the instance is returned
BuildInstance ==
    /\ build.pc = "instance"
    /\ \E flushing \in {0, DefaultInterval} :
         build' = [build EXCEPT !.step = "instance", !.pc = "done", !.ret = Nil,
                                !.flushing = flushing > 0]
    /\ UNCHANGED <<format, sink, programVars>>

\* the exporters of the Option that StandardOption.Build builds the Logger
\* from: Exporters: []Exporter { exporter, errorExporter }
OptionExporters ==
    <<"exporter", "errorExporter">>

\* an error exporter whose span begins at LevelWarning
UseSpanFromWarning(resource) ==
    IF resource = "exporter"
      THEN <<LevelDebug, LevelWarning>>
      ELSE <<LevelWarning, LevelFatal>>

\* the span the exporter is built with: UseSpan(LevelDebug, LevelWarning)
\* for the exporter and UseSpan(LevelError, LevelFatal) for the error
\* exporter
UseSpan(resource) ==
    IF resource = "exporter"
      THEN <<LevelDebug, LevelWarning>>
      ELSE <<LevelError, LevelFatal>>

\* the exporters of the logger the Build call has made, in their order
LoggerExporters ==
    IF "logger" \in build.made THEN OptionExporters ELSE <<>>

\* an exporter matches an entry whose level lies in its span, bounds
\* included
SpanMatches(span, level) ==
    span[1] <= level /\ level <= span[2]

NextBuild ==
    \/ BuildSampler
    \/ BuildEncoder
    \/ BuildSyncer
    \/ BuildExporter
    \/ BuildErrorSyncer
    \/ BuildErrorExporter
    \/ BuildLogger
    \/ BuildInstance

SpecBuild ==
    InitBuild /\ [][NextBuild]_vars

\* ------------------------------------------------------------ FormatJSON

\* A text (a string or a []byte) is the sequence of its characters.

TypeInt ==
    1

TypeUint ==
    2

TypeFloat32 ==
    3

TypeFloat64 ==
    4

TypeBoolean ==
    5

TypeString ==
    6

TypeBytes ==
    7

TypeFields ==
    8

TypeValue ==
    9

\* an ElementType that is none of the constants
TypeUnrecognized ==
    12

\* what an interface { } holds: the dynamic type and the value, which is the
\* integers, the texts (strings, []byte, floating point numbers), the booleans
\* or the fields of a value of that type
NilInterface ==
    [kind |-> "nil", ints |-> <<>>, texts |-> <<>>, bools |-> <<>>, fields |-> <<>>]

OfInts(kind, values) ==
    [NilInterface EXCEPT !.kind = kind, !.ints = values]

OfTexts(kind, values) ==
    [NilInterface EXCEPT !.kind = kind, !.texts = values]

OfBools(kind, values) ==
    [NilInterface EXCEPT !.kind = kind, !.bools = values]

OfFields(values) ==
    [NilInterface EXCEPT !.kind = "ElementFields", !.fields = values]

\* a struct { } in an interface { }
OfStruct ==
    [NilInterface EXCEPT !.kind = "struct"]

\* the types with a FormatJSON method
JSONFormatters ==
    {"ElementFields", "ElementInts", "ElementUint64s", "ElementFloat32s",
     "ElementFloat64s", "ElementBooleans", "ElementStrings"}

\* the floating point numbers of the model, each written as
\* strconv.AppendFloat(b, f, 'f', -1, bitSize) writes it
Zero ==
    <<"0">>

OneAndHalf ==
    <<"1", ".", "5">>

MinusTwoAndQuarter ==
    <<"-", "2", ".", "2", "5">>

Floats ==
    {Zero, OneAndHalf, MinusTwoAndQuarter}

\* math.Float64bits: the 16 leading bits of the IEEE 754 pattern, the 48
\* other bits being 0 for these numbers
Float64bits(f) ==
    CASE f = Zero -> 0
      [] f = OneAndHalf -> 16376
      [] f = MinusTwoAndQuarter -> 49154

\* a positive number below the smallest normal float64: its pattern has an
\* exponent field of 0. Its digits are not spelled out.
Subnormal ==
    <<"s", "u", "b", "n", "o", "r", "m", "a", "l">>

\* math.Float64frombits: the number of the pattern; a pattern of none of
\* the model's numbers has leading bits 0 and is a subnormal number
Float64frombits(n) ==
    IF \E f \in Floats : Float64bits(f) = n
      THEN CHOOSE f \in Floats : Float64bits(f) = n
      ELSE Subnormal

\* math.Float32bits: the 8 leading bits of the IEEE 754 single precision
\* pattern, the 24 other bits being 0 for these numbers
Float32bits(f) ==
    CASE f = Zero -> 0
      [] f = OneAndHalf -> 63
      [] f = MinusTwoAndQuarter -> 192

\* strconv.AppendFloat with bitSize 32 rounds its float64 argument to
\* float32 first: a float64 subnormal becomes 0
RoundTo32(f) ==
    IF f = Subnormal THEN Zero ELSE f

\* int64(value) of an unsigned value: the same bits read as two's complement
Int64(value) ==
    IF value >= 2 ^ (WordBits - 1) THEN value - 2 ^ WordBits ELSE value

\* a conversion to unsigned that drops the sign instead of keeping the bits
Uint64Magnitude(number) ==
    IF number < 0 THEN 0 - number ELSE number

\* uint64(e.Number): the same bits read as an unsigned value
Uint64(number) ==
    number % 2 ^ WordBits

\* the constructors of a Field
IntField(name, value) ==
    [Name |-> name, Type |-> TypeInt, Number |-> value, String |-> <<>>,
     Interface |-> NilInterface]

\* Number: int64(value)
Uint(name, value) ==
    [Name |-> name, Type |-> TypeUint, Number |-> Int64(value), String |-> <<>>,
     Interface |-> NilInterface]

\* Number: int64(math.Float32bits(value))
Float32(name, value) ==
    [Name |-> name, Type |-> TypeFloat32, Number |-> Int64(Float32bits(value)), String |-> <<>>,
     Interface |-> NilInterface]

Float64(name, value) ==
    [Name |-> name, Type |-> TypeFloat64, Number |-> Int64(Float64bits(value)), String |-> <<>>,
     Interface |-> NilInterface]

Boolean(name, value) ==
    [Name |-> name, Type |-> TypeBoolean, Number |-> IF value THEN 1 ELSE 0,
     String |-> <<>>, Interface |-> NilInterface]

String(name, value) ==
    [Name |-> name, Type |-> TypeString, Number |-> 0, String |-> value,
     Interface |-> NilInterface]

Bytes(name, value) ==
    [Name |-> name, Type |-> TypeBytes, Number |-> 0, String |-> <<>>,
     Interface |-> OfTexts("[]byte", <<value>>)]

\* Value: the type switch over the dynamic type of value
Value(name, value) ==
    CASE value.kind \in {"int", "int16", "int32", "int64"} -> IntField(name, value.ints[1])
      [] value.kind \in {"uint", "uint8", "uint16", "uint32", "uint64"} -> Uint(name, value.ints[1])
      [] value.kind = "float32" -> Float32(name, value.texts[1])
      [] value.kind = "float64" -> Float64(name, value.texts[1])
      [] value.kind = "bool" -> Boolean(name, value.bools[1])
      [] value.kind = "string" -> String(name, value.texts[1])
      [] value.kind = "[]byte" -> Bytes(name, value.texts[1])
      [] OTHER -> [Name |-> name, Type |-> TypeValue, Number |-> 0, String |-> <<>>,
                   Interface |-> value]

Fields(name, fs) ==
    Value(name, OfFields(fs))

Ints(name, values) ==
    Value(name, OfInts("ElementInts", values))

Strings(name, values) ==
    Value(name, OfTexts("ElementStrings", values))

\* an Element made without a constructor
RawField(name, type, number, string, interface) ==
    [Name |-> name, Type |-> type, Number |-> number, String |-> string,
     Interface |-> interface]

\* a failed type assertion in a FormatJSON
FormatPanic ==
    <<"panic">>

Digit(d) ==
    <<"0", "1", "2", "3", "4", "5", "6", "7", "8", "9">>[d + 1]

RECURSIVE AppendUint(_, _)
\* strconv.AppendUint(buffer, n, 10)
AppendUint(buffer, n) ==
    IF n < 10
      THEN Append(buffer, Digit(n))
      ELSE Append(AppendUint(buffer, n \div 10), Digit(n % 10))

\* strconv.AppendInt(buffer, n, 10)
AppendInt(buffer, n) ==
    IF n < 0 THEN AppendUint(Append(buffer, "-"), 0 - n) ELSE AppendUint(buffer, n)

\* strconv.AppendFloat(buffer, f, 'f', -1, bitSize)
AppendFloat(buffer, f) ==
    buffer \o f

\* strconv.AppendBool(buffer, b)
AppendBool(buffer, b) ==
    buffer \o (IF b THEN <<"t", "r", "u", "e">> ELSE <<"f", "a", "l", "s", "e">>)

\* a text between quotes written from an empty buffer
AppendQuotedFresh(buffer, text) ==
    <<"\"">> \o text \o <<"\"">>

\* append(buffer, '"'); append(buffer, text...); append(buffer, '"')
AppendQuoted(buffer, text) ==
    (Append(buffer, "\"") \o text) \o <<"\"">>

\* the item a loop of an array type appends
AppendItem(kind, buffer, item) ==
    CASE kind = "ElementInts" -> AppendInt(buffer, item)
      [] kind = "ElementUint64s" -> AppendUint(buffer, item)
      [] kind \in {"ElementFloat32s", "ElementFloat64s"} -> AppendFloat(buffer, item)
      [] kind = "ElementBooleans" -> AppendBool(buffer, item)
      [] kind = "ElementStrings" -> AppendQuoted(buffer, item)

RECURSIVE ArrayLoop(_, _, _, _)
\* for index := 0; index < len(e); index++ of the array types
ArrayLoop(kind, e, i, buffer) ==
    IF i > Len(e)
      THEN buffer
      ELSE LET item == AppendItem(kind, buffer, e[i])
           IN  ArrayLoop(kind, e, i + 1,
                         IF i < Len(e) THEN item \o <<",", " ">> ELSE item)

\* FormatJSON of ElementInts, ElementUint64s, ElementFloat32s,
\* ElementFloat64s, ElementBooleans and ElementStrings
ArrayFormatJSON(kind, e, buffer) ==
    Append(ArrayLoop(kind, e, 1, Append(buffer, "[")), "]")

RECURSIVE ElementFormatJSON(_, _)
RECURSIVE FieldsLoop(_, _, _)

\* the loop of ElementFields.FormatJSON with the separator after each member
FieldsLoopSeparatorAfterEach(e, i, buffer) ==
    IF i > Len(e)
      THEN buffer
      ELSE LET name == (Append(buffer, "\"") \o e[i].Name) \o <<"\"", ":", " ">>
               member == ElementFormatJSON(e[i], name)
           IN  IF member = FormatPanic
                 THEN FormatPanic
                 ELSE FieldsLoop(e, i + 1, member \o <<",", " ">>)

\* for index := 0; index < len(e); index++ of ElementFields.FormatJSON
FieldsLoop(e, i, buffer) ==
    IF i > Len(e)
      THEN buffer
      ELSE LET name == (Append(buffer, "\"") \o e[i].Name) \o <<"\"", ":", " ">>
               member == ElementFormatJSON(e[i], name)
           IN  IF member = FormatPanic
                 THEN FormatPanic
                 ELSE FieldsLoop(e, i + 1,
                                 IF i < Len(e) THEN member \o <<",", " ">> ELSE member)

\* ElementFields.FormatJSON
ElementFieldsFormatJSON(e, buffer) ==
    LET members == FieldsLoop(e, 1, Append(buffer, "{"))
    IN  IF members = FormatPanic THEN FormatPanic ELSE Append(members, "}")

\* the items of a value of an array type
Items(interface) ==
    CASE interface.kind \in {"ElementInts", "ElementUint64s"} -> interface.ints
      [] interface.kind = "ElementBooleans" -> interface.bools
      [] OTHER -> interface.texts

\* element.FormatJSON(buffer) of the value in the Interface container
JSONFormatterFormatJSON(interface, buffer) ==
    IF interface.kind = "ElementFields"
      THEN ElementFieldsFormatJSON(interface.fields, buffer)
      ELSE ArrayFormatJSON(interface.kind, Items(interface), buffer)

\* Element.FormatJSON
ElementFormatJSON(e, buffer) ==
    CASE e.Type = TypeInt -> AppendInt(buffer, e.Number)
      [] e.Type = TypeUint -> AppendUint(buffer, Uint64(e.Number))
      [] e.Type = TypeFloat32 ->
            AppendFloat(buffer, RoundTo32(Float64frombits(Uint64(e.Number))))
      [] e.Type = TypeFloat64 ->
            AppendFloat(buffer, Float64frombits(Uint64(e.Number)))
      [] e.Type = TypeBoolean ->
            IF e.Number > 0
              THEN buffer \o <<"t", "r", "u", "e">>
              ELSE buffer \o <<"f", "a", "l", "s", "e">>
      [] e.Type = TypeString -> AppendQuoted(buffer, e.String)
      [] e.Type = TypeBytes ->
            IF e.Interface.kind = "[]byte"
              THEN AppendQuoted(buffer, e.Interface.texts[1])
              ELSE FormatPanic
      [] OTHER ->
            IF e.Interface.kind \in JSONFormatters
              THEN JSONFormatterFormatJSON(e.Interface, buffer)
              ELSE buffer \o <<"?", "?", "?">>

\* the fields [Int("a", 1), String("b", "x")]
FieldsAB ==
    <<IntField(<<"a">>, 1), String(<<"b">>, <<"x">>)>>

\* the uint64 values given to Uint: small ones, the largest below the sign
\* bit, the sign bit alone, and the largest of all
Uint64Values ==
    {0, 7, 40, 2 ^ (WordBits - 1) - 1, 2 ^ (WordBits - 1), 2 ^ WordBits - 1}

\* the types of the built-in scalars
SignedKinds ==
    {"int", "int8", "int16", "int32", "int64"}

UnsignedKinds ==
    {"uint", "uint8", "uint16", "uint32", "uint64"}

\* a value of every built-in scalar type, in an interface { }
Scalars ==
    {OfInts(kind, <<7>>) : kind \in SignedKinds \cup UnsignedKinds}
      \cup {OfTexts("float32", <<OneAndHalf>>), OfTexts("float64", <<OneAndHalf>>),
            OfBools("bool", <<TRUE>>), OfTexts("string", <<<<"x">>>>),
            OfTexts("[]byte", <<<<"x">>>>)}

\* the elements FormatJSON is called on: made by the constructors, and made
\* without them
Elements ==
    {IntField(<<"a">>, 1), IntField(<<"a">>, 0), IntField(<<"a">>, 0 - 12), IntField(<<"a">>, 305),
     Float32(<<"a">>, Zero), Float64(<<"a">>, Zero), Float64(<<"a">>, OneAndHalf),
     Float64(<<"a">>, MinusTwoAndQuarter),
     Float32(<<"a">>, OneAndHalf), Float32(<<"a">>, MinusTwoAndQuarter),
     Boolean(<<"a">>, TRUE), Boolean(<<"a">>, FALSE),
     String(<<"b">>, <<"x">>), String(<<"b">>, <<>>),
     Bytes(<<"b">>, <<"x", "y">>),
     Fields(<<"c">>, FieldsAB), Fields(<<"c">>, <<>>),
     Ints(<<"c">>, <<1, 0 - 12>>), Strings(<<"c">>, <<<<"x">>, <<>>>>),
     Value(<<"c">>, OfBools("bool", <<TRUE>>)), Value(<<"c">>, OfInts("int", <<7>>)),
     Value(<<"c">>, OfStruct), Value(<<"c">>, NilInterface),
     RawField(<<>>, 0, 0, <<>>, NilInterface),
     RawField(<<"a">>, 0, 7, <<"x">>, NilInterface),
     RawField(<<"a">>, 0, 0, <<>>, OfInts("ElementInts", <<1>>)),
     RawField(<<"a">>, 0, 0, <<>>, OfTexts("[]byte", <<<<"x">>>>)),
     RawField(<<"a">>, TypeUnrecognized, 7, <<>>, NilInterface),
     RawField(<<"a">>, TypeUnrecognized, 0, <<>>, OfTexts("ElementStrings", <<<<"x">>>>)),
     RawField(<<"a">>, TypeFields, 0, <<>>, OfFields(FieldsAB)),
     RawField(<<"a">>, TypeBoolean, 2, <<>>, NilInterface),
     RawField(<<"a">>, TypeBoolean, 0 - 1, <<>>, NilInterface),
     RawField(<<"a">>, TypeBytes, 0, <<>>, NilInterface),
     RawField(<<"a">>, TypeBytes, 0, <<"x">>, OfTexts("string", <<<<"x">>>>))}
      \cup {Uint(<<"a">>, v) : v \in Uint64Values}
      \cup {Value(<<"c">>, v) : v \in Scalars}

\* the values of the array and field-sequence types FormatJSON is called on
Formatters ==
    {OfFields(<<>>),
     OfFields(FieldsAB),
     OfFields(<<Boolean(<<"a">>, TRUE)>>),
     OfFields(<<Fields(<<"c">>, FieldsAB), Float64(<<"d">>, OneAndHalf),
                   Ints(<<"e">>, <<>>)>>),
     OfFields(<<RawField(<<"a">>, 0, 0, <<>>, NilInterface),
                   Bytes(<<"b">>, <<"x">>)>>),
     OfFields(<<IntField(<<"a">>, 1),
                   RawField(<<"b">>, TypeBytes, 0, <<>>, NilInterface)>>),
     OfInts("ElementInts", <<>>),
     OfInts("ElementInts", <<1>>),
     OfInts("ElementInts", <<1, 0 - 12, 0>>),
     OfInts("ElementUint64s", <<>>),
     OfInts("ElementUint64s", <<7, 305>>),
     OfTexts("ElementFloat32s", <<Zero, OneAndHalf>>),
     OfTexts("ElementFloat64s", <<MinusTwoAndQuarter>>),
     OfTexts("ElementFloat64s", <<OneAndHalf, Zero, MinusTwoAndQuarter>>),
     OfBools("ElementBooleans", <<TRUE, FALSE>>),
     OfBools("ElementBooleans", <<FALSE>>),
     OfTexts("ElementStrings", <<>>),
     OfTexts("ElementStrings", <<<<"x">>, <<>>, <<"x", "y">>>>)}

\* the Element of a call on a value of another type
NoElement ==
    RawField(<<>>, 0, 0, <<>>, NilInterface)

\* the buffers given to FormatJSON
Buffers ==
    {<<>>, <<"m", ":", " ">>}

\* a FormatJSON call is about to be made, on an Element or on a value of an
\* array or field-sequence type
InitFormat ==
    /\ InitProgram
    /\ build = NoBuild
    /\ format \in
         {[pc |-> "call", kind |-> "Element", element |-> e, formatter |-> NilInterface,
           buffer |-> b, result |-> <<>>] : e \in Elements, b \in Buffers}
         \cup {[pc |-> "call", kind |-> f.kind, element |-> NoElement, formatter |-> f,
                 buffer |-> b, result |-> <<>>] : f \in Formatters, b \in Buffers}
    /\ sink = NoSink

\* the call returns result, or panics
Formatted(result) ==
    /\ format' = [format EXCEPT !.pc = IF result = FormatPanic THEN "panic" ELSE "done",
                                !.result = IF result = FormatPanic THEN <<>> ELSE result]
    /\ UNCHANGED <<build, sink, programVars>>

\* e.FormatJSON(buffer) on an Element
CallElementFormatJSON ==
    /\ format.pc = "call"
    /\ format.kind = "Element"
    /\ Formatted(ElementFormatJSON(format.element, format.buffer))

\* e.FormatJSON(buffer) on an ElementFields
CallElementFieldsFormatJSON ==
    /\ format.pc = "call"
    /\ format.kind = "ElementFields"
    /\ Formatted(ElementFieldsFormatJSON(format.formatter.fields, format.buffer))

\* e.FormatJSON(buffer) on an ElementInts
CallElementIntsFormatJSON ==
    /\ format.pc = "call"
    /\ format.kind = "ElementInts"
    /\ Formatted(ArrayFormatJSON("ElementInts", Items(format.formatter), format.buffer))

\* e.FormatJSON(buffer) on an ElementUint64s
CallElementUint64sFormatJSON ==
    /\ format.pc = "call"
    /\ format.kind = "ElementUint64s"
    /\ Formatted(ArrayFormatJSON("ElementUint64s", Items(format.formatter), format.buffer))

\* e.FormatJSON(buffer) on an ElementFloat32s
CallElementFloat32sFormatJSON ==
    /\ format.pc = "call"
    /\ format.kind = "ElementFloat32s"
    /\ Formatted(ArrayFormatJSON("ElementFloat32s", Items(format.formatter), format.buffer))

\* e.FormatJSON(buffer) on an ElementFloat64s
CallElementFloat64sFormatJSON ==
    /\ format.pc = "call"
    /\ format.kind = "ElementFloat64s"
    /\ Formatted(ArrayFormatJSON("ElementFloat64s", Items(format.formatter), format.buffer))

\* e.FormatJSON(buffer) on an ElementBooleans
CallElementBooleansFormatJSON ==
    /\ format.pc = "call"
    /\ format.kind = "ElementBooleans"
    /\ Formatted(ArrayFormatJSON("ElementBooleans", Items(format.formatter), format.buffer))

\* e.FormatJSON(buffer) on an ElementStrings
CallElementStringsFormatJSON ==
    /\ format.pc = "call"
    /\ format.kind = "ElementStrings"
    /\ Formatted(ArrayFormatJSON("ElementStrings", Items(format.formatter), format.buffer))

NextFormat ==
    \/ CallElementFormatJSON
    \/ CallElementFieldsFormatJSON
    \/ CallElementIntsFormatJSON
    \/ CallElementUint64sFormatJSON
    \/ CallElementFloat32sFormatJSON
    \/ CallElementFloat64sFormatJSON
    \/ CallElementBooleansFormatJSON
    \/ CallElementStringsFormatJSON

SpecFormat ==
    InitFormat /\ [][NextFormat]_vars

\* ------------------------------------------------------------- syncers

\* The standard, file and network syncers: a writer behind a cache of
\* capacity bytes. What Write is given is a chunk, [id, size]: the id tells
\* the chunks apart and gives their order, the size is the number of bytes.

\* the least capacity of the cache of a file syncer, when it has a cache
MinimumCapacity ==
    1024

\* the values given to UseCacheCapacity
CacheCapacities ==
    {0, 256, MinimumCapacity, 1500}

\* the numbers of bytes given to Write
ChunkSizes ==
    {11, 600}

\* "use of closed network connection"
ErrClosedConnection ==
    <<"use of closed network connection", 0>>

RECURSIVE Size(_)
\* the number of bytes of chunks
Size(chunks) ==
    IF chunks = <<>> THEN 0 ELSE chunks[1].size + Size(Tail(chunks))

\* the capacity of a syncer built with the capacity configured
BuiltCapacityAsConfigured(type, capacity) ==
    capacity

\* the capacity of the syncer the option's Build makes: that of a file
\* syncer is at least MinimumCapacity unless it is 0
BuiltCapacity(type, capacity) ==
    IF type = SyncerFile /\ capacity > 0 /\ capacity < MinimumCapacity
      THEN MinimumCapacity
      ELSE capacity

\* NewFileSyncerOption().UseCacheCapacity(c) and the like have been called
InitSink ==
    /\ InitProgram
    /\ build = NoBuild
    /\ format = NoFormat
    /\ sink \in {[pc |-> "new", type |-> t, configured |-> c, option |-> c, capacity |-> 0,
                  pending |-> <<>>, delivered |-> <<>>, accepted |-> <<>>,
                  connection |-> "none", accepting |-> TRUE, op |-> "none", ret |-> Nil,
                  redialed |-> FALSE, todo |-> <<>>, keep |-> <<>>] :
                     t \in {SyncerStandard, SyncerFile, SyncerNetwork}, c \in CacheCapacities}

\* option.Build(): the file is opened or the address dialled
SyncerBuild ==
    /\ sink.pc = "new"
    /\ sink' = [sink EXCEPT !.pc = "ready", !.op = "Build",
                            !.capacity = BuiltCapacity(sink.type, sink.option),
                            !.connection = "open"]
    /\ UNCHANGED <<build, format, programVars>>

\* the writer takes bytes: always, but for a connection that was closed
Writable ==
    sink.type # SyncerNetwork \/ sink.connection = "open"

\* op gives todo to the writer and keeps keep in the cache; on a closed
\* connection the syncer goes on to dial again
Flush(op, chunk, todo, keep) ==
    IF todo = <<>> \/ Writable
      THEN sink' = [sink EXCEPT !.op = op, !.ret = Nil, !.redialed = FALSE,
                                !.accepted = @ \o chunk,
                                !.delivered = @ \o todo,
                                !.pending = keep,
                                !.pc = IF op = "Close" THEN "closed" ELSE "ready",
                                !.connection = IF op = "Close" THEN "released" ELSE @]
      ELSE sink' = [sink EXCEPT !.op = op, !.pc = "redial",
                                !.accepted = @ \o chunk, !.todo = todo, !.keep = keep]

\* Write on a closed connection returning the error of the writer
SyncerWriteSurfaces(size) ==
    /\ sink.pc = "ready"
    /\ Len(sink.accepted) < MaxWrites
    /\ LET chunk == <<[id |-> Len(sink.accepted) + 1, size |-> size]>>
       IN  IF Writable
             THEN Flush("Write", chunk, sink.pending \o chunk, <<>>)
             ELSE sink' = [sink EXCEPT !.op = "Write", !.ret = ErrClosedConnection]
    /\ UNCHANGED <<build, format, programVars>>

\* syncer.Write(buffer): without a cache the bytes go to the writer; bytes
\* that fit in the cache stay there; otherwise the cache is flushed first, and
\* bytes larger than the cache go to the writer after it
SyncerWrite(size) ==
    /\ sink.pc = "ready"
    /\ Len(sink.accepted) < MaxWrites
    /\ LET chunk == <<[id |-> Len(sink.accepted) + 1, size |-> size]>>
       IN  IF sink.capacity = 0
             THEN Flush("Write", chunk, sink.pending \o chunk, <<>>)
             ELSE IF Size(sink.pending) + size <= sink.capacity
                    THEN Flush("Write", chunk, <<>>, sink.pending \o chunk)
                    ELSE IF size <= sink.capacity
                           THEN Flush("Write", chunk, sink.pending, chunk)
                           ELSE Flush("Write", chunk, sink.pending \o chunk, <<>>)
    /\ UNCHANGED <<build, format, programVars>>

\* Sync returning with the cache as it is
SyncerSyncKeepsCache ==
    /\ sink.pc = "ready"
    /\ Flush("Sync", <<>>, <<>>, sink.pending)
    /\ UNCHANGED <<build, format, programVars>>

\* syncer.Sync(): the cache is flushed
SyncerSync ==
    /\ sink.pc = "ready"
    /\ Flush("Sync", <<>>, sink.pending, <<>>)
    /\ UNCHANGED <<build, format, programVars>>

\* syncer.Close(): the cache is flushed and the writer closed
SyncerClose ==
    /\ sink.pc = "ready"
    /\ Flush("Close", <<>>, sink.pending, <<>>)
    /\ UNCHANGED <<build, format, programVars>>

\* the write failed on the closed connection: the syncer dials the stored
\* protocol and address, which takes until the destination accepts
\* connections, and writes again
SyncerRedial ==
    /\ sink.pc = "redial"
    /\ sink.accepting
    /\ sink' = [sink EXCEPT !.connection = IF sink.op = "Close" THEN "released" ELSE "open",
                            !.redialed = TRUE, !.ret = Nil,
                            !.delivered = @ \o sink.todo,
                            !.pending = sink.keep,
                            !.todo = <<>>, !.keep = <<>>,
                            !.pc = IF sink.op = "Close" THEN "closed" ELSE "ready"]
    /\ UNCHANGED <<build, format, programVars>>

\* the connection is closed at the other end, or by syncer.writer.Close()
ConnectionCloses ==
    /\ sink.type = SyncerNetwork
    /\ sink.pc = "ready"
    /\ sink.connection = "open"
    /\ \E accepting \in BOOLEAN :
         sink' = [sink EXCEPT !.connection = "closed", !.accepting = accepting]
    /\ UNCHANGED <<build, format, programVars>>

\* the destination accepts connections again
DestinationAccepts ==
    /\ sink.type = SyncerNetwork
    /\ ~sink.accepting
    /\ sink' = [sink EXCEPT !.accepting = TRUE]
    /\ UNCHANGED <<build, format, programVars>>

NextSink ==
    \/ SyncerBuild
    \/ \E size \in ChunkSizes : SyncerWrite(size)
    \/ SyncerSync
    \/ SyncerClose
    \/ SyncerRedial
    \/ ConnectionCloses
    \/ DestinationAccepts

SpecSink ==
    InitSink /\ [][NextSink]_vars

\* ------------------------------------------------------- Logger.Output

lifecycleVars ==
    <<loggerType, copies, closed, contextReferences, contextDone,
      contextWaitGroup, flushPc, flushIndex, exporterSyncing, exporterCloses,
      pc, self, index, everZero, zeroBy, closedBy, closeFirst,
      closeLater, lastRelease, dupsThenCloses, dupLate, lateCopy, flushSynced,
      flushFailed, fields, arrays, setterCalls, flushingInterval, interval>>

\* Option.Build: a Logger with the fields of the option, and no call running
InitOutput ==
    /\ loggerType = "StandardLogger"
    /\ copies = {}
    /\ closed = [c \in Copies |-> 0]
    /\ contextReferences = 0
    /\ contextDone = FALSE
    /\ contextWaitGroup = 0
    /\ flushPc = "off"
    /\ flushIndex = 0
    /\ exporterSyncing = [e \in Exporters |-> 0]
    /\ exporterCloses = [e \in Exporters |-> 0]
    /\ pc = [t \in Threads |-> "idle"]
    /\ self = [t \in Threads |-> 0]
    /\ index = [t \in Threads |-> 0]
    /\ everZero = FALSE
    /\ zeroBy = 0
    /\ closedBy = [e \in Exporters |-> 0]
    /\ closeFirst = [c \in Copies |-> NotCalled]
    /\ closeLater = [c \in Copies |-> {}]
    /\ lastRelease = 0
    /\ dupsThenCloses = TRUE
    /\ dupLate = [t \in Threads |-> FALSE]
    /\ lateCopy = FALSE
    /\ flushSynced = FALSE
    /\ flushFailed = FALSE
    /\ fields = [c \in Copies |-> NoFields]
    /\ arrays = <<>>
    /\ setterCalls = 0
    /\ flushingInterval = 0
    /\ interval = 0
    /\ \E level \in Levels, sampler \in BOOLEAN, hooks \in 0..MaxHooks,
          exporters \in 0..MaxExporters, addSource \in BOOLEAN :
         logger = [name |-> "test", level |-> level, sampler |-> sampler,
                   hooks |-> hooks, exporters |-> exporters,
                   labels |-> "labels", addSource |-> addSource]
    /\ call = [t \in Callers |-> IdleCall]
    /\ build = NoBuild
    /\ format = NoFormat
    /\ sink = NoSink

\* a return that leaves the Entry with the call instead of freeing it
ReturnWithoutFree(c, ret) ==
    [c EXCEPT !.ret = ret, !.pc = "return"]

\* pool.Entry.Free(entry), then return ret
FreeAndReturn(c, ret) ==
    [c EXCEPT !.released = @ + 1, !.ret = ret, !.pc = "return"]

\* an Entry given the name, level, time and labels but left with the message
\* it came with
StampedKeepsMessage(entry, level, message) ==
    [entry EXCEPT !.Name = logger.name, !.Level = level, !.Time = "now",
                  !.Labels = logger.labels]

\* the Entry of a call, taken from the pool as entry and given the fields of
\* the call
Stamped(entry, level, message) ==
    [entry EXCEPT !.Name = logger.name, !.Level = level, !.Time = "now",
                  !.Message = message, !.Labels = logger.labels]

\* Output without the test of the level
OutputAnyLevel(t, stacks, level, message) ==
    /\ call[t].pc = "idle"
    /\ IF logger.exporters = 0
         THEN call' = [call EXCEPT ![t] =
                  [@ EXCEPT !.pc = "return", !.stacks = stacks, !.level = level,
                            !.message = message, !.ret = Nil]]
         ELSE \E entry \in PoolEntryNew :
                call' = [call EXCEPT ![t] =
                  [@ EXCEPT !.pc = "sample", !.stacks = stacks, !.level = level,
                            !.message = message, !.acquired = 1,
                            !.entry = Stamped(entry, level, message)]]
    /\ UNCHANGED logger
    /\ UNCHANGED lifecycleVars
    /\ UNCHANGED libraryVars

\* Output without the test of the number of exporters
OutputAnyExporters(t, stacks, level, message) ==
    /\ call[t].pc = "idle"
    /\ IF ~Enabled(logger.level, level)
         THEN call' = [call EXCEPT ![t] =
                  [@ EXCEPT !.pc = "return", !.stacks = stacks, !.level = level,
                            !.message = message, !.ret = Nil]]
         ELSE \E entry \in PoolEntryNew :
                call' = [call EXCEPT ![t] =
                  [@ EXCEPT !.pc = "sample", !.stacks = stacks, !.level = level,
                            !.message = message, !.acquired = 1,
                            !.entry = Stamped(entry, level, message)]]
    /\ UNCHANGED logger
    /\ UNCHANGED lifecycleVars
    /\ UNCHANGED libraryVars

\* Output up to the sampler: the two early returns, then the Entry is taken
\* from the pool and its fields are set
Output(t, stacks, level, message) ==
    /\ call[t].pc = "idle"
    /\ IF ~Enabled(logger.level, level) \/ logger.exporters = 0
         THEN call' = [call EXCEPT ![t] =
                  [@ EXCEPT !.pc = "return", !.stacks = stacks, !.level = level,
                            !.message = message, !.ret = Nil]]
         ELSE \E entry \in PoolEntryNew :
                call' = [call EXCEPT ![t] =
                  [@ EXCEPT !.pc = "sample", !.stacks = stacks, !.level = level,
                            !.message = message, !.acquired = 1,
                            !.entry = Stamped(entry, level, message)]]
    /\ UNCHANGED logger
    /\ UNCHANGED lifecycleVars
    /\ UNCHANGED libraryVars

\* return l.Output(2, level, message)
LoggerPrint(t, level, message) ==
    Output(t, 2, level, message)

\* Output going on to the hooks with an Entry the sampler rejected
OutputSampleIgnored(t) ==
    /\ call[t].pc = "sample"
    /\ \E keep \in BOOLEAN :
         call' = [call EXCEPT ![t] =
           [@ EXCEPT !.sampled = IF ~logger.sampler THEN "none"
                                 ELSE IF keep THEN "true" ELSE "false",
                     !.entry.SourceLocation =
                         IF logger.addSource
                           THEN newEntrySourceLocation(call[t].stacks)
                           ELSE @,
                     !.pc = "hooks", !.index = 1]]
    /\ UNCHANGED logger
    /\ UNCHANGED lifecycleVars
    /\ UNCHANGED libraryVars

\* the sampler, if there is one, decides; a kept Entry gets its source
\* location if addSource is set
OutputSample(t) ==
    /\ call[t].pc = "sample"
    /\ \E keep \in BOOLEAN :
         IF logger.sampler /\ ~keep
           THEN call' = [call EXCEPT ![t] =
                    FreeAndReturn([@ EXCEPT !.sampled = "false"], Nil)]
           ELSE call' = [call EXCEPT ![t] =
                    [@ EXCEPT !.sampled = IF logger.sampler THEN "true" ELSE "none",
                              !.entry.SourceLocation =
                                  IF logger.addSource
                                    THEN newEntrySourceLocation(call[t].stacks)
                                    ELSE @,
                              !.pc = "hooks", !.index = 1]]
    /\ UNCHANGED logger
    /\ UNCHANGED lifecycleVars
    /\ UNCHANGED libraryVars

\* the loop over l.hooks going on to the next hook after an error, which it
\* keeps as the result
OutputHooksContinue(t) ==
    /\ call[t].pc = "hooks"
    /\ IF call[t].index > logger.hooks
         THEN call' = [call EXCEPT ![t] = [@ EXCEPT !.pc = "exporters", !.index = 1]]
         ELSE \E err \in {Nil, HookError[call[t].index]} :
                call' = [call EXCEPT ![t] =
                  [@ EXCEPT !.printed = Append(@, call[t].index),
                            !.ret = IF err # Nil THEN err ELSE @,
                            !.index = @ + 1]]
    /\ UNCHANGED logger
    /\ UNCHANGED lifecycleVars
    /\ UNCHANGED libraryVars

\* one round of the loop over l.hooks
OutputHooks(t) ==
    /\ call[t].pc = "hooks"
    /\ IF call[t].index > logger.hooks
         THEN call' = [call EXCEPT ![t] = [@ EXCEPT !.pc = "exporters", !.index = 1]]
         ELSE \E err \in {Nil, HookError[call[t].index]} :
                call' = [call EXCEPT ![t] =
                  IF err # Nil
                    THEN FreeAndReturn([@ EXCEPT !.printed = Append(@, call[t].index)], err)
                    ELSE [@ EXCEPT !.printed = Append(@, call[t].index),
                                   !.index = @ + 1]]
    /\ UNCHANGED logger
    /\ UNCHANGED lifecycleVars
    /\ UNCHANGED libraryVars

\* the loop over l.exporters taking the failed exporter and the ones after it
\* off the logger before it returns the error
OutputExportersDropFailed(t) ==
    /\ call[t].pc = "exporters"
    /\ IF call[t].index > logger.exporters
         THEN /\ call' = [call EXCEPT ![t] = FreeAndReturn(@, Nil)]
              /\ UNCHANGED logger
         ELSE \E err \in {Nil, ExportError[call[t].index]} :
                /\ call' = [call EXCEPT ![t] =
                     IF err # Nil
                       THEN FreeAndReturn([@ EXCEPT !.exported = Append(@, call[t].index)], err)
                       ELSE [@ EXCEPT !.exported = Append(@, call[t].index),
                                      !.index = @ + 1]]
                /\ logger' = IF err # Nil
                               THEN [logger EXCEPT !.exporters = call[t].index - 1]
                               ELSE logger
    /\ UNCHANGED lifecycleVars
    /\ UNCHANGED libraryVars

\* the loop over l.exporters calling a failed exporter once more before it
\* returns the error
OutputExportersRetry(t) ==
    /\ call[t].pc = "exporters"
    /\ IF call[t].index > logger.exporters
         THEN call' = [call EXCEPT ![t] = FreeAndReturn(@, Nil)]
         ELSE \E err \in {Nil, ExportError[call[t].index]} :
                call' = [call EXCEPT ![t] =
                  IF err # Nil
                    THEN FreeAndReturn(
                           [@ EXCEPT !.exported = Append(Append(@, call[t].index),
                                                         call[t].index)], err)
                    ELSE [@ EXCEPT !.exported = Append(@, call[t].index),
                                   !.index = @ + 1]]
    /\ UNCHANGED logger
    /\ UNCHANGED lifecycleVars
    /\ UNCHANGED libraryVars

\* one round of the loop over l.exporters; after the last one the Entry is
\* freed and Output returns nil
OutputExporters(t) ==
    /\ call[t].pc = "exporters"
    /\ IF call[t].index > logger.exporters
         THEN call' = [call EXCEPT ![t] = FreeAndReturn(@, Nil)]
         ELSE \E err \in {Nil, ExportError[call[t].index]} :
                call' = [call EXCEPT ![t] =
                  IF err # Nil
                    THEN FreeAndReturn([@ EXCEPT !.exported = Append(@, call[t].index)], err)
                    ELSE [@ EXCEPT !.exported = Append(@, call[t].index),
                                   !.index = @ + 1]]
    /\ UNCHANGED logger
    /\ UNCHANGED lifecycleVars
    /\ UNCHANGED libraryVars

\* the caller has the result and may call again
OutputReturn(t) ==
    /\ call[t].pc = "return"
    /\ call' = [call EXCEPT ![t] = IdleCall]
    /\ UNCHANGED logger
    /\ UNCHANGED lifecycleVars
    /\ UNCHANGED libraryVars

NextOutput ==
    \/ \E t \in Callers, stacks \in Stacks, level \in Levels, message \in Messages :
         Output(t, stacks, level, message)
    \/ \E t \in Callers, level \in Levels, message \in Messages :
         LoggerPrint(t, level, message)
    \/ \E t \in Callers : OutputSample(t)
    \/ \E t \in Callers : OutputHooks(t)
    \/ \E t \in Callers : OutputExporters(t)
    \/ \E t \in Callers : OutputReturn(t)

SpecOutput ==
    InitOutput /\ [][NextOutput]_vars

\* ------------------------------------------------------- specification

Next ==
    \/ \E t \in Threads, c \in Copies : StandardLoggerDuplicate(t, c)
    \/ \E t \in Threads, c \in Copies : StructLoggerDuplicate(t, c)
    \/ \E t \in Threads, c \in Copies : TemplateLoggerDuplicate(t, c)
    \/ \E t \in Threads : CopyInstance(t)
    \/ \E t \in Threads, c \in Copies : CloseCall(t, c)
    \/ \E t \in Threads : CloseRelease(t)
    \/ \E t \in Threads : CloseCancel(t)
    \/ \E t \in Threads : CloseWait(t)
    \/ \E t \in Threads : CloseExporters(t)
    \/ FlushTick
    \/ FlushSyncCall
    \/ FlushSyncReturn
    \/ FlushExit

Spec ==
    Init /\ [][Next]_vars

\* ------------------------------------------- the family from Build on

\* StandardOption.Build has made the core Logger and is about to make the
\* instance; StructOption.Build and TemplateOption.Build call it and wrap
\* its result
InitFamily ==
    /\ InitProgram
    /\ build = [pc |-> "instance", step |-> "logger", type |-> "",
                option |-> "nil", ret |-> Pending, made |-> {}, open |-> {},
                flushing |-> FALSE]
    /\ format = NoFormat
    /\ sink = NoSink

\* a Build that starts the flush task whatever the interval is
StartFlushAlways(flushing) ==
    /\ contextWaitGroup' = contextWaitGroup + 1
    /\ flushPc' = "start"

\* if o.Flushing.Interval > 0 { instance.contextWaitGroup.Add(1);
\* go instance.flushHandler(o.Flushing.Interval) }
StartFlush(flushing) ==
    IF flushing > 0
      THEN /\ contextWaitGroup' = contextWaitGroup + 1
           /\ flushPc' = "start"
      ELSE UNCHANGED <<contextWaitGroup, flushPc>>

\* the instance is made with a fresh context and wait group, its reference
\* count is set to 1, the flush task is started with o.Flushing.Interval
\* when that is positive, and the instance is returned
BuildFamily ==
    /\ build.pc = "instance"
    /\ \E type \in LoggerTypes, flushing \in {0, DefaultInterval} :
         /\ loggerType' = type
         /\ flushingInterval' = flushing
         /\ interval' = flushing
         /\ StartFlush(flushing)
         /\ build' = [build EXCEPT !.step = "instance", !.pc = "done",
                                   !.ret = Nil, !.flushing = flushing > 0]
    /\ copies' = {1}
    /\ contextReferences' = contextReferences + 1
    /\ fields' = [fields EXCEPT ![1] = BuiltFields(NilHooks)]
    /\ UNCHANGED <<closed, contextDone, exporterCloses, pc, self, index>>
    /\ UNCHANGED <<flushIndex, exporterSyncing, flushSynced, flushFailed>>
    /\ UNCHANGED <<arrays, setterCalls>>
    /\ UNCHANGED <<format, sink>>
    /\ UNCHANGED pipelineVars
    /\ UNCHANGED closeHistory
    /\ UNCHANGED dupHistory

NextFamily ==
    \/ BuildFamily
    \/ FlushStart
    \/ Next

SpecFamily ==
    InitFamily /\ [][NextFamily]_vars

\* the goroutines that call Duplicate and Close while termination is
\* examined
Closers ==
    1..NumClosers

NextTeardown ==
    \/ BuildFamily
    \/ FlushStart
    \/ \E t \in Closers, c \in Copies : StandardLoggerDuplicate(t, c)
    \/ \E t \in Closers, c \in Copies : StructLoggerDuplicate(t, c)
    \/ \E t \in Closers, c \in Copies : TemplateLoggerDuplicate(t, c)
    \/ \E t \in Closers : CopyInstance(t)
    \/ \E t \in Closers, c \in Copies : CloseCall(t, c)
    \/ \E t \in Closers : CloseRelease(t)
    \/ \E t \in Closers : CloseCancel(t)
    \/ \E t \in Closers : CloseWait(t)
    \/ \E t \in Closers : CloseExporters(t)
    \/ FlushTick
    \/ FlushSyncCall
    \/ FlushSyncReturn
    \/ FlushExit

\* Fair scheduling: a goroutine that can take its next step takes it. The
\* steps of the teardown and of the flush task's start and Sync round are
\* taken when they stay possible (every exporter's Sync and Close return);
\* the select of flushHandler chooses among its ready cases at random, so
\* the Done case, ready at every select once the context is cancelled, is
\* chosen sooner or later.
FairScheduling ==
    /\ \A t \in Closers :
         /\ WF_vars(CloseRelease(t))
         /\ WF_vars(CloseCancel(t))
         /\ WF_vars(CloseWait(t))
         /\ WF_vars(CloseExporters(t))
    /\ WF_vars(FlushStart)
    /\ WF_vars(FlushSyncCall)
    /\ WF_vars(FlushSyncReturn)
    /\ SF_vars(FlushExit)

SpecTeardown ==
    InitFamily /\ [][NextTeardown]_vars /\ FairScheduling

\* ------------------------------------------------- lifecycle properties

\* the copies whose Close call closed an exporter
Tearers ==
    {c \in copies : \E e \in Exporters : closedBy[e] = c}

\* a Close call is in its teardown branch
TearingDown ==
    \E t \in Threads : pc[t] \in {"close_cancel", "close_wait", "close_exporters"}

\* C1: over any interleaving of Duplicate and Close calls on the built logger
\* and its copies, each exporter's Close is invoked at most once, and only by
\* the Close call that drove the reference count to zero, when every copy had
\* been closed.
TeardownExactlyOnce ==
    \A e \in Exporters :
        /\ exporterCloses[e] <= 1
        /\ exporterCloses[e] = 1 =>
             /\ zeroBy # 0
             /\ closedBy[e] = zeroBy
             /\ \A c \in copies : closed[c] = 1

\* C1 witness: teardown happened in a family of several copies
TeardownExactlyOnceWitness ==
    /\ \A e \in Exporters : exporterCloses[e] = 1
    /\ Cardinality(copies) >= 2
    /\ ~TearingDown

\* every Duplicate returned before the first Close, and a Close call has
\* returned on each copy
AllCopiesClosed ==
    /\ dupsThenCloses
    /\ \A t \in Threads : pc[t] = "idle"
    /\ \A c \in copies : closeFirst[c] # NotCalled

\* C2: after N Duplicate calls and then a Close on each of the N+1 copies,
\* exactly one Close call closed exporters and it is the last one to have
\* released its reference; the earlier ones returned nil; every further Close
\* on a copy returned ErrClosed.
DuplicateThenClose ==
    AllCopiesClosed =>
        /\ Cardinality(Tearers) = 1
        /\ Tearers = {lastRelease}
        /\ \A c \in copies \ Tearers : closeFirst[c] = Nil
        /\ \A c \in copies : closeLater[c] \subseteq {ErrClosed}

\* C2 witness: two duplicates, all three copies closed, one of them twice
DuplicateThenCloseWitness ==
    /\ AllCopiesClosed
    /\ Cardinality(copies) = 3
    /\ \E c \in copies : closeLater[c] # {}

\* C3: once the reference count has reached zero, no later Duplicate call
\* returns a copy.
NoCopyAfterZero ==
    ~lateCopy

\* C4: once an exporter's Close has been invoked, the shared context is
\* cancelled and the flush task has exited (or was never started): it is not
\* in a Sync round and no Sync of it is running.
FlushDrainedBeforeClose ==
    (\E e \in Exporters : exporterCloses[e] > 0) =>
        /\ contextDone
        /\ flushPc \in {"off", "exited"}
        /\ contextWaitGroup = 0
        /\ \A e \in Exporters : exporterSyncing[e] = 0

\* C4 witness: a flush task that has synced has exited and an exporter is closed
FlushDrainedBeforeCloseWitness ==
    /\ exporterCloses[1] = 1
    /\ flushPc = "exited"
    /\ flushSynced

\* the Close call that drove the count to zero has returned
TeardownReturned ==
    /\ zeroBy # 0
    /\ closeFirst[zeroBy] \notin {NotCalled, Pending}

\* C5: the Close call that performs teardown invokes Close on every exporter,
\* also after an exporter's Close returned an error.
TeardownClosesEveryExporter ==
    TeardownReturned => \A e \in Exporters : exporterCloses[e] = 1

\* C6: a second or later Close on a copy returns ErrClosed and changes neither
\* the reference count, the shared context, the wait group nor any exporter.
CloseIdempotent ==
    [][\A t \in Threads, c \in Copies :
         (CloseCall(t, c) /\ closeFirst[c] # NotCalled) =>
            /\ closeLater'[c] = closeLater[c] \cup {ErrClosed}
            /\ UNCHANGED <<contextReferences, contextDone, contextWaitGroup,
                           exporterCloses, closedBy, closed, flushVars, pc>>]_vars

\* C6 witness: a copy closed twice while another copy is still open
CloseIdempotentWitness ==
    \E c \in copies :
        /\ closeFirst[c] = Nil
        /\ closeLater[c] = {ErrClosed}
        /\ contextReferences > 0

\* C7: a Close whose decrement leaves the reference count positive returns nil
\* and leaves the shared context, the wait group, the flush task and the
\* exporters as they are.
CloseKeepsSharedResources ==
    [][\A t \in Threads :
         (pc[t] = "close_release" /\ contextReferences' = contextReferences - 1
            /\ contextReferences' > 0 /\ pc'[t] # pc[t]) =>
            /\ pc'[t] = "idle"
            /\ closeFirst'[self[t]] = Nil
            /\ UNCHANGED <<contextDone, contextWaitGroup, flushVars,
                           exporterCloses, closedBy>>]_vars

\* C7 witness: a Close returned nil while the flush task runs and the context
\* is live
CloseKeepsSharedResourcesWitness ==
    /\ \E c \in copies : closeFirst[c] = Nil
    /\ contextReferences > 0
    /\ ~contextDone
    /\ flushPc = "in_sync"

\* what Output on copy c works with: the name, level, sampler and labels of
\* the copy and the hooks in its slice
LoggerView(c) ==
    [name |-> fields[c].name, level |-> fields[c].level,
     sampler |-> fields[c].sampler, labels |-> fields[c].labels,
     hooks |-> [i \in 1..fields[c].hooks.len |-> arrays[fields[c].hooks.array][i]]]

\* a setter is called on copy c
SetterCalled(c) ==
    \/ \E name \in Names : SetName(c, name)
    \/ \E level \in Levels : SetLevel(c, level)
    \/ \E sampler \in Samplers : SetSampler(c, sampler)
    \/ \E labels \in LabelSets : SetLabels(c, labels)
    \/ \E hook \in HookValues : AddHooks(c, hook)
    \/ ResetHooks(c)

\* C16: a setter called on one copy leaves the name, level, sampler, labels
\* and hook chain of every other copy as they are.
SettersAreIsolated ==
    [][\A c \in Copies :
         SetterCalled(c) =>
            \A d \in copies \ {c} : LoggerView(d)' = LoggerView(d)]_vars

\* C17: IsClosed on a copy is true exactly when Close has been called on that
\* copy.
IsClosedIffCloseCalled ==
    \A c \in copies : IsClosed(c) <=> closeFirst[c] # NotCalled

\* the floor FlushingOption.Interval documents
DocumentedFloor ==
    100 * Millisecond

\* C18: the interval the flush task waits for is never below 100
\* milliseconds, and a configured interval that is not below it is used
\* unchanged.
EffectiveIntervalFloor ==
    flushPc \in {"select", "sync", "in_sync"} =>
        /\ interval >= DocumentedFloor
        /\ flushingInterval >= DocumentedFloor => interval = flushingInterval

\* C19: a round of l.Sync() ends only after Sync was called on the last
\* exporter, whatever the Sync of an earlier exporter returned.
SyncReachesEveryExporter ==
    [][(flushPc \in {"sync", "in_sync"} /\ flushPc' = "select") =>
          flushIndex >= NumExporters]_vars

\* the results a Close call and an Output call can have
CloseResults ==
    {NotCalled, Pending, Nil, ErrClosed} \cup {ExporterCloseError[e] : e \in Exporters}

OutputResults ==
    {Nil} \cup {HookError[h] : h \in 1..MaxHooks}
          \cup {ExportError[e] : e \in 1..MaxExporters}

\* C20: the flush task exits only from its select and only when the context
\* is cancelled; after an exporter's Sync returns, with an error or not, it
\* goes on with the round or back to the select; and no step of it changes
\* the result of a Close or Output call, which is never a Sync error.
FlushSwallowsSyncErrors ==
    [][/\ (flushPc # "exited" /\ flushPc' = "exited") =>
            (flushPc = "select" /\ contextDone)
       /\ (flushPc = "in_sync" /\ flushPc' # "in_sync") =>
            (flushPc' \in {"select", "sync"} /\ UNCHANGED contextWaitGroup)
       /\ flushPc' # flushPc => UNCHANGED <<closeFirst, closeLater, call>>
       /\ \A c \in Copies : closeFirst'[c] \in CloseResults
                              /\ closeLater'[c] \subseteq CloseResults
       /\ \A t \in Callers : call'[t].ret \in OutputResults]_vars

\* C20 witness: the flush task has ticked again after a Sync error, and the
\* context is not cancelled
FlushSwallowsSyncErrorsWitness ==
    /\ flushFailed
    /\ flushPc = "in_sync"
    /\ ~contextDone

\* --------------------------------------------------- pipeline properties

\* the call of t has returned, or is running, without having done anything
NothingDone(t) ==
    /\ call[t].pc = "return"
    /\ call[t].ret = Nil
    /\ call[t].acquired = 0
    /\ call[t].released = 0
    /\ call[t].sampled = "none"
    /\ call[t].printed = <<>>
    /\ call[t].exported = <<>>

\* C8: an Output call with a level below the minimum of the logger returns nil
\* and acquires no Entry, calls no sampler, no hook and no exporter.
OutputBelowLevelIsNoOp ==
    \A t \in Callers :
        (call[t].pc # "idle" /\ call[t].level < logger.level) => NothingDone(t)

\* C8 witness: such a call has returned on a logger with a sampler, hooks and
\* exporters
OutputBelowLevelIsNoOpWitness ==
    \E t \in Callers :
        /\ call[t].pc = "return"
        /\ call[t].level < logger.level
        /\ logger.sampler
        /\ logger.hooks > 0
        /\ logger.exporters > 0

\* C9: with no exporter, an Output call with a level at or above the minimum
\* returns nil and acquires no Entry, calls no sampler and no hook.
OutputWithoutExportersIsNoOp ==
    \A t \in Callers :
        (call[t].pc # "idle" /\ logger.exporters = 0
           /\ call[t].level >= logger.level) => NothingDone(t)

\* C9 witness: such a call has returned on a logger with a sampler and hooks
OutputWithoutExportersIsNoOpWitness ==
    \E t \in Callers :
        /\ call[t].pc = "return"
        /\ logger.exporters = 0
        /\ call[t].level >= logger.level
        /\ logger.sampler
        /\ logger.hooks > 0

\* C10: when the sampler rejects the Entry, Output returns nil, has freed the
\* Entry it acquired, and has called no hook and no exporter with it.
SampledOutIsDropped ==
    \A t \in Callers :
        call[t].sampled = "false" =>
            /\ logger.sampler
            /\ call[t].pc = "return"
            /\ call[t].ret = Nil
            /\ call[t].acquired = 1
            /\ call[t].released = 1
            /\ call[t].printed = <<>>
            /\ call[t].exported = <<>>

\* C10 witness: a call was sampled out on a logger with hooks and exporters
SampledOutIsDroppedWitness ==
    \E t \in Callers :
        /\ call[t].sampled = "false"
        /\ call[t].pc = "return"
        /\ logger.hooks > 0
        /\ logger.exporters > 0

\* the sequence 1, 2, .. n: the first n hooks or exporters in registration order
FirstN(n) ==
    [i \in 1..n |-> i]

\* the sampler, if there is one, has kept the Entry of the call
Sampled(c) ==
    /\ c.pc \notin {"idle", "sample"}
    /\ c.sampled = IF logger.sampler THEN "true" ELSE "none"

\* C11: the hooks called so far are the first hooks of the chain in
\* registration order, each once, called after the sampler kept the Entry; an
\* exporter is called only after every hook was; and when Output returns the
\* error of hook h, the hooks called are exactly 1..h and no exporter was
\* called.
HooksInOrderFirstErrorAborts ==
    \A t \in Callers :
        LET c == call[t] IN
        /\ Len(c.printed) <= logger.hooks
        /\ c.printed = FirstN(Len(c.printed))
        /\ c.printed # <<>> => Sampled(c)
        /\ c.exported # <<>> => c.printed = FirstN(logger.hooks)
        /\ \A h \in 1..MaxHooks :
             c.ret = HookError[h] =>
                /\ c.pc = "return"
                /\ c.printed = FirstN(h)
                /\ c.exported = <<>>

\* C11 witness: the first of two hooks failed on a logger with exporters
HooksInOrderFirstErrorAbortsWitness ==
    \E t \in Callers :
        /\ call[t].ret = HookError[1]
        /\ logger.hooks = 2
        /\ logger.exporters > 0
        /\ logger.sampler

\* C12: the exporters called so far are the first exporters in registration
\* order, each once; when Output returns the error of exporter e, the
\* exporters called are exactly 1..e: the ones before e were called and are
\* not undone, e was called once, and none after e was called.
ExportInOrderFirstErrorAborts ==
    \A t \in Callers :
        LET c == call[t] IN
        /\ Len(c.exported) <= logger.exporters
        /\ c.exported = FirstN(Len(c.exported))
        /\ \A e \in 1..MaxExporters :
             c.ret = ExportError[e] =>
                /\ c.pc = "return"
                /\ c.exported = FirstN(e)

\* C12 witness: the first exporter exported and the second one failed
ExportInOrderFirstErrorAbortsWitness ==
    \E t \in Callers :
        /\ call[t].ret = ExportError[2]
        /\ call[t].exported = <<1, 2>>

CurrentEntry(c) ==
    [Name |-> logger.name, Level |-> c.level, Time |-> "now",
     Message |-> c.message, Labels |-> logger.labels,
     SourceLocation |-> IF logger.addSource
                          THEN newEntrySourceLocation(c.stacks)
                          ELSE ZeroEntry.SourceLocation]

\* C14: the Entry that the sampler, the hooks and the exporters are given has
\* every field set from the current call, the source location included (the
\* caller's when addSource is set, none otherwise).
EntryFullySet ==
    \A t \in Callers :
        call[t].pc \in {"sample", "hooks", "exporters"} =>
            call[t].entry = CurrentEntry(call[t])

\* C15: when an exporter is called, the level of the call is not below the
\* minimum of the logger, and the Entry has the level and the message of the
\* call and the name and the labels of the logger.
ExporterReceivesCall ==
    \A t \in Callers :
        LET c == call[t] IN
        c.exported # <<>> =>
            /\ c.level >= logger.level
            /\ c.entry.Level = c.level
            /\ c.entry.Message = c.message
            /\ c.entry.Name = logger.name
            /\ c.entry.Labels = logger.labels

\* C15 witness: an INFO call with a message went through both hooks to both
\* exporters of a logger with minimum INFO and returned nil
ExporterReceivesCallWitness ==
    \E t \in Callers :
        /\ call[t].pc = "return"
        /\ call[t].ret = Nil
        /\ call[t].level = LevelInfo
        /\ logger.level = LevelInfo
        /\ call[t].message = "Hello Test!"
        /\ call[t].printed = <<1, 2>>
        /\ call[t].exported = <<1, 2>>

\* C21: no step of an Output call changes the logger's fields or its
\* lifecycle state, and the return of a call that failed leaves its
\* goroutine as one that has not called yet: the logger is not closed and
\* the next call meets what the first call met.
OutputFailureIsLocal ==
    [][/\ call' # call => UNCHANGED <<logger, lifecycleVars>>
       /\ \A t \in Callers :
            (call[t].pc = "return" /\ call[t].ret # Nil /\ call'[t] # call[t]) =>
               call'[t] = IdleCall]_vars

\* C21 witness: a call that went through the hooks and was failed by the
\* first of two exporters is about to return its error
OutputFailureIsLocalWitness ==
    /\ \E t \in Callers :
         /\ call[t].pc = "return"
         /\ call[t].ret = ExportError[1]
    /\ logger.hooks > 0
    /\ logger.exporters = 2

\* ----------------------------------------------------- builder properties

\* C22: when StandardOption.Build has returned an error, no syncer and no
\* exporter built in the call is open and no flush task was started.
BuildErrorUnwinds ==
    (build.pc = "done" /\ build.ret # Nil) =>
        /\ build.open = {}
        /\ ~build.flushing

\* C22 witness: the error exporter could not be built after both syncers and
\* the exporter were
BuildErrorUnwindsWitness ==
    /\ build.pc = "done"
    /\ build.ret = BuilderError
    /\ build.step = "errorExporter"
    /\ {"syncer", "exporter", "errorSyncer"} \subseteq build.made

\* the step whose builder was given a Type that it does not support
UnsupportedType ==
    \/ build.step = "sampler" /\ build.type \notin {"", SamplerText}
    \/ build.step = "encoder" /\ build.type \notin {EncoderStandard, EncoderJSON}
    \/ /\ build.step \in {"syncer", "errorSyncer"}
       /\ build.type \notin {SyncerStandard, SyncerFile, SyncerNetwork, SyncerDiscard}

\* C23: a sampling, encoding or outputting option whose Type is not supported
\* makes its Build return ErrInvalidType, whatever its Option holds, and
\* nothing is built by it.
InvalidTypeRejected ==
    UnsupportedType =>
        /\ build.pc = "done"
        /\ build.ret = ErrInvalidType
        /\ build.step \notin build.made

\* C23 witness: an error outputting option of an unknown type that holds a
\* file syncer option
InvalidTypeRejectedWitness ==
    /\ build.step = "errorSyncer"
    /\ build.type = "unknown"
    /\ build.option = "*FileSyncerOption"

\* C30: no Type and Option make a Build panic.
BuildNeverPanics ==
    build.pc # "panic"

\* --------------------------------------------------- FormatJSON properties

\* a member of a JSON object: the name between quotes, a colon, a space and
\* the JSON of the value
Member(f) ==
    (<<"\"">> \o f.Name \o <<"\"", ":", " ">>) \o ElementFormatJSON(f, <<>>)

RECURSIVE Members(_)
\* the members of the fields in their order, ", " between two of them
Members(e) ==
    IF e = <<>>
      THEN <<>>
      ELSE IF Len(e) = 1
             THEN Member(e[1])
             ELSE (Member(e[1]) \o <<",", " ">>) \o Members(Tail(e))

\* the text {"a": 1, "b": "x"}
ObjectAB ==
    <<"{", "\"", "a", "\"", ":", " ", "1", ",", " ", "\"", "b", "\"", ":", " ",
      "\"", "x", "\"", "}">>

\* C24: ElementFields.FormatJSON appends '{', the members in insertion order
\* with ", " between consecutive ones and none after the last, and '}'; the
\* empty sequence gives {} and [Int("a", 1), String("b", "x")] gives
\* {"a": 1, "b": "x"}.
FieldsRenderAsObject ==
    (format.pc = "done" /\ format.kind = "ElementFields") =>
        LET e == format.formatter.fields
        IN  /\ format.result = (format.buffer \o <<"{">> \o Members(e)) \o <<"}">>
            /\ e = <<>> => format.result = format.buffer \o <<"{", "}">>
            /\ e = FieldsAB => format.result = format.buffer \o ObjectAB

\* C24 witness: [Int("a", 1), String("b", "x")] was formatted into an empty
\* buffer
FieldsRenderAsObjectWitness ==
    /\ format.pc = "done"
    /\ format.kind = "ElementFields"
    /\ format.formatter.fields = FieldsAB
    /\ format.buffer = <<>>

\* C25: an Element whose Type is 0 or none of the constants is rendered as
\* ???, whatever its other fields hold, and its FormatJSON does not panic.
InvalidRendersPlaceholder ==
    (/\ format.pc # "call"
     /\ format.kind = "Element"
     /\ format.element.Type \notin TypeInt .. TypeValue) =>
        /\ format.pc = "done"
        /\ format.result = format.buffer \o <<"?", "?", "?">>

\* what FormatJSON writes for the receiver of the call into an empty buffer
Representation ==
    IF format.kind = "Element"
      THEN ElementFormatJSON(format.element, <<>>)
      ELSE JSONFormatterFormatJSON(format.formatter, <<>>)

\* C26: the buffer a FormatJSON returns is the buffer it was given followed
\* by the representation of the value, and by nothing else.
FormatJSONAppendsOnly ==
    format.pc = "done" =>
        /\ SubSeq(format.result, 1, Len(format.buffer)) = format.buffer
        /\ format.result = format.buffer \o Representation

\* C26 witness: a field sequence holding a string was formatted into a buffer
\* that already held text
FormatJSONAppendsOnlyWitness ==
    /\ format.pc = "done"
    /\ format.buffer # <<>>
    /\ format.kind = "ElementFields"
    /\ \E i \in 1 .. Len(format.formatter.fields) :
          format.formatter.fields[i].Type = TypeString

\* ------------------------------------------------------ syncer properties

\* the syncer is between two calls
Returned ==
    sink.pc \in {"ready", "closed"}

\* C27: after a Sync or Close that returned no error the cache holds no
\* byte, whatever the capacity; without a cache it holds none after any
\* call; and what the writer got, followed by the cache, is what Write was
\* given, in the order it was given.
CacheDrained ==
    /\ (Returned /\ sink.op \in {"Sync", "Close"} /\ sink.ret = Nil) => sink.pending = <<>>
    /\ (Returned /\ sink.capacity = 0) => sink.pending = <<>>
    /\ Returned => sink.delivered \o sink.pending = sink.accepted
    /\ \A i \in 1 .. Len(sink.accepted) : sink.accepted[i].id = i

\* C27 witness: two chunks that fit in the cache together, and were kept in
\* it, have got to the writer by Sync
CacheDrainedWitness ==
    /\ sink.pc = "ready"
    /\ sink.op = "Sync"
    /\ Len(sink.accepted) = 2
    /\ Size(sink.accepted) <= sink.capacity
    /\ sink.delivered = sink.accepted

StandardLoggerSync(t, c) ==
    /\ pc[t] = "idle"
    /\ c \in copies
    /\ pc' = [pc EXCEPT ![t] = "sync"]
    /\ self' = [self EXCEPT ![t] = c]
    /\ index' = [index EXCEPT ![t] = 1]
    /\ UNCHANGED <<loggerType, copies, closed, contextReferences, contextDone,
                   contextWaitGroup, exporterCloses>>
    /\ UNCHANGED flushVars
    /\ UNCHANGED pipelineVars
    /\ UNCHANGED libraryVars
    /\ UNCHANGED configVars
    /\ UNCHANGED closeHistory
    /\ UNCHANGED dupHistory

\* one round of the loop of Sync: Sync is called on the exporter at the
\* index and its error, if any, is returned; after the last exporter Sync
\* returns nil
SyncExporters(t) ==
    /\ pc[t] = "sync"
    /\ \E failed \in BOOLEAN :
         IF index[t] > NumExporters \/ failed
           THEN /\ pc' = [pc EXCEPT ![t] = "idle"]
                /\ self' = [self EXCEPT ![t] = 0]
                /\ index' = [index EXCEPT ![t] = 0]
           ELSE /\ index' = [index EXCEPT ![t] = @ + 1]
                /\ UNCHANGED <<pc, self>>
    /\ UNCHANGED <<loggerType, copies, closed, contextReferences, contextDone,
                   contextWaitGroup, exporterCloses>>
    /\ UNCHANGED flushVars
    /\ UNCHANGED pipelineVars
    /\ UNCHANGED libraryVars
    /\ UNCHANGED configVars
    /\ UNCHANGED closeHistory
    /\ UNCHANGED dupHistory

\* a built StandardLogger with its default Logger
InitUse ==
    /\ Init
    /\ loggerType = "StandardLogger"

\* Output, Sync, Duplicate and Close calls on the copies of the logger, and
\* its flush task
NextUse ==
    \/ \E t \in Callers, level \in {LevelInfo, LevelError} :
         Output(t, 2, level, "Hello Test!")
    \/ \E t \in Callers : OutputSample(t)
    \/ \E t \in Callers : OutputHooks(t)
    \/ \E t \in Callers : OutputExporters(t)
    \/ \E t \in Callers : OutputReturn(t)
    \/ \E t \in Closers, c \in Copies : StandardLoggerSync(t, c)
    \/ \E t \in Closers : SyncExporters(t)
    \/ \E t \in Closers, c \in Copies : StandardLoggerDuplicate(t, c)
    \/ \E t \in Closers : CopyInstance(t)
    \/ \E t \in Closers, c \in Copies : CloseCall(t, c)
    \/ \E t \in Closers : CloseRelease(t)
    \/ \E t \in Closers : CloseCancel(t)
    \/ \E t \in Closers : CloseWait(t)
    \/ \E t \in Closers : CloseExporters(t)
    \/ FlushTick
    \/ FlushSyncCall
    \/ FlushSyncReturn
    \/ FlushExit

SpecUse ==
    InitUse /\ [][NextUse]_vars

\* ------------------------------------------------ the flush task count

\* the flush tasks that were started and have not returned: each start adds
\* one to the wait group and each return takes one off
FlushTasks ==
    contextWaitGroup

\* C31: a logger family has at most one background flush task at any time:
\* Build starts exactly one when the flush interval is positive and none
\* when it is zero, and no Duplicate, of any logger type, starts another. So
\* the number of tasks is 0 before Build returns and for an interval of
\* zero, and with a positive interval it is 1 until the task returns and 0
\* from then on.
AtMostOneFlushTask ==
    /\ FlushTasks \in {0, 1}
    /\ FlushTasks = 1 <=> flushPc \in {"start", "select", "sync", "in_sync"}
    /\ build.pc = "instance" => flushPc = "off"
    /\ build.pc = "done" =>
         /\ flushingInterval = 0 => flushPc = "off"
         /\ flushingInterval > 0 => flushPc # "off"

\* a Duplicate returned a copy while the one flush task of a Build with a
\* positive interval is running
AtMostOneFlushTaskWitness ==
    /\ build.pc = "done"
    /\ flushingInterval > 0
    /\ Cardinality(copies) = MaxCopies
    /\ FlushTasks = 1
    /\ flushPc = "sync"

\* a Build with interval zero returned and its logger was duplicated: no
\* flush task
NoFlushTaskWitness ==
    /\ build.pc = "done"
    /\ flushingInterval = 0
    /\ Cardinality(copies) >= 2
    /\ FlushTasks = 0



\* ------------------------------------------------ termination of Close

\* C32: the Close call that drove the reference count to zero eventually
\* returns: under fair scheduling the flush task, when one was started,
\* observes the cancellation and returns, so the wait of Close ends, and
\* with no flush task the wait does not block at all.
TeardownCloseReturns ==
    \A t \in Closers : (pc[t] = "close_cancel") ~> (pc[t] = "idle")

\* the Close that drove the count to zero returned after the flush task,
\* which had run a Sync round, returned
TeardownCloseReturnsWitness ==
    /\ build.pc = "done"
    /\ TeardownReturned
    /\ flushingInterval > 0
    /\ flushPc = "exited"
    /\ flushSynced
    /\ \A t \in Threads : pc[t] = "idle"

\* the Close that drove the count to zero returned and no flush task was
\* ever started
TeardownCloseReturnsNoTaskWitness ==
    /\ build.pc = "done"
    /\ TeardownReturned
    /\ flushingInterval = 0
    /\ flushPc = "off"



\* ----------------------------------------------- the reference count

\* the copies on which Close has not been called
OpenCopies ==
    {c \in copies : closeFirst[c] = NotCalled}

\* no Duplicate and no Close call is running
Quiescent ==
    \A t \in Threads : pc[t] = "idle"

\* C33: the shared reference count equals the number of copies (the built
\* logger and every copy a Duplicate returned) on which Close has not yet
\* been called. The states inside a Duplicate or Close call, where the count
\* and the copies are updated one after the other, are left out.
ReferenceCountIsOpenCopies ==
    Quiescent => contextReferences = Cardinality(OpenCopies)



\* C34: through every interleaving of Duplicate and Close calls the shared
\* reference count is never negative, and a Close that passed the guard of
\* its copy's closed flag finds a count of at least 1 to take its reference
\* from: the branch of Close for a negative count is never taken.
ReferenceCountNeverNegative ==
    /\ contextReferences >= 0
    /\ \A t \in Threads : pc[t] = "close_release" => contextReferences >= 1

\* the count came back to zero after Duplicate calls returned copies, and a
\* repeated Close on a copy was stopped by the guard
ReferenceCountNeverNegativeWitness ==
    /\ contextReferences = 0
    /\ Cardinality(copies) = MaxCopies
    /\ \E c \in copies : ErrClosed \in closeLater[c]
    /\ \E t \in Threads : pc[t] = "close_exporters"



\* C35: every copy returned by Duplicate starts not closed, whatever the
\* closed flag of the copy Duplicate was called on: IsClosed is false on it
\* until Close is called on it, and its first Close does not return
\* ErrClosed.
DuplicateStartsOpen ==
    \A c \in copies \ {1} :
      /\ closeFirst[c] = NotCalled => ~IsClosed(c)
      /\ closeFirst[c] # ErrClosed



\* ------------------------------------------------ use after teardown

\* this step of the Output call of t invokes Export on exporter e
ExportInvoked(t, e) ==
    /\ call[t].pc = "exporters"
    /\ call[t].index = e
    /\ e <= logger.exporters
    /\ call'[t] # call[t]

\* this step of the Sync call of t invokes Sync on exporter e
SyncInvoked(t, e) ==
    /\ pc[t] = "sync"
    /\ index[t] = e
    /\ <<pc[t], index[t]>>' # <<pc[t], index[t]>>

\* this step of the flush task invokes Sync on exporter e
FlushSyncInvoked(e) ==
    /\ flushPc = "sync"
    /\ flushIndex = e
    /\ flushPc' = "in_sync"

\* C36: in any interleaving of Output, Sync, Duplicate and Close on the
\* copies of one logger, no exporter's Export or Sync is invoked after that
\* exporter's Close has been invoked.
NoUseAfterClose ==
    [][\A e \in Exporters :
         exporterCloses[e] > 0 =>
           /\ \A t \in Callers : ~ExportInvoked(t, e)
           /\ \A t \in Closers : ~SyncInvoked(t, e)
           /\ ~FlushSyncInvoked(e)]_vars



\* ------------------------------------------------ the exporters' spans

\* the exporters of the built logger that export an entry of the level
Exporting(level) ==
    {i \in 1..Len(LoggerExporters) :
       SpanMatches(UseSpan(LoggerExporters[i]), level)}

\* C37: a logger built by StandardOption.Build has exactly two exporters,
\* first the output exporter with the span DEBUG..WARNING and then the error
\* exporter with the span ERROR..FATAL, so every level from DEBUG to FATAL
\* lies in the span of exactly one of them and no entry is exported by both.
ExportersPartitionLevels ==
    build.pc = "done" /\ build.ret = Nil =>
      /\ Len(LoggerExporters) = 2
      /\ UseSpan(LoggerExporters[1]) = <<LevelDebug, LevelWarning>>
      /\ UseSpan(LoggerExporters[2]) = <<LevelError, LevelFatal>>
      /\ \A level \in Levels : Cardinality(Exporting(level)) = 1
      /\ \A level \in Levels :
           Exporting(level) = IF level <= LevelWarning THEN {1} ELSE {2}

\* Build returned a logger, made from both exporters
ExportersPartitionLevelsWitness ==
    /\ build.pc = "done"
    /\ build.ret = Nil
    /\ {"exporter", "errorExporter", "logger"} \subseteq build.made
    /\ Exporting(LevelWarning) = {1}
    /\ Exporting(LevelError) = {2}



\* ------------------------------------------------- numbers in a field

\* Element.FormatJSON was called on e and has returned or panicked
FormatJSONCalledOn(e) ==
    /\ format.pc # "call"
    /\ format.kind = "Element"
    /\ format.element = e

\* FormatJSON returned the buffer it was given followed by text
Rendered(text) ==
    /\ format.pc = "done"
    /\ format.result = format.buffer \o text

\* C38: for every unsigned value v of the full width, the values with the
\* leading bit set included, the field Uint(name, v) is rendered by
\* FormatJSON as the base-10 digits of v: the conversion into the signed
\* numeric slot and back loses nothing.
UintRendersDecimal ==
    \A v \in Uint64Values :
      FormatJSONCalledOn(Uint(<<"a">>, v)) =>
        /\ Uint64(format.element.Number) = v
        /\ Rendered(AppendUint(<<>>, v))

\* the largest unsigned value, held in the slot as -1, has been rendered
UintRendersDecimalWitness ==
    /\ FormatJSONCalledOn(Uint(<<"a">>, 2 ^ WordBits - 1))
    /\ format.element.Number = 0 - 1
    /\ format.pc = "done"
    /\ format.buffer # <<>>

\* C39: FormatJSON decodes the numeric slot of a float element with the
\* width of the pattern the constructor stored, so a Float32 field and a
\* Float64 field are rendered as the number they were made from.
FloatRendersConstructedValue ==
    \A f \in Floats :
      /\ FormatJSONCalledOn(Float32(<<"a">>, f)) => Rendered(f)
      /\ FormatJSONCalledOn(Float64(<<"a">>, f)) => Rendered(f)

\* the kind the claim gives a built-in scalar type
TypedKind(kind) ==
    CASE kind \in SignedKinds -> TypeInt
      [] kind \in UnsignedKinds -> TypeUint
      [] kind = "float32" -> TypeFloat32
      [] kind = "float64" -> TypeFloat64
      [] kind = "bool" -> TypeBoolean
      [] kind = "string" -> TypeString
      [] kind = "[]byte" -> TypeBytes

\* C40: Value(name, v) gives every built-in scalar its typed kind and never
\* the extensible kind: the signed integer widths give TypeInt, the unsigned
\* ones TypeUint, float32 and float64 TypeFloat32 and TypeFloat64, bool
\* TypeBoolean, string TypeString and []byte TypeBytes, and none of them is
\* rendered as ???.
ValueTypesEveryScalar ==
    \A v \in Scalars :
      FormatJSONCalledOn(Value(<<"c">>, v)) =>
        /\ format.element.Type = TypedKind(v.kind)
        /\ format.element.Type # TypeValue
        /\ format.pc = "done"
        /\ format.result # format.buffer \o <<"?", "?", "?">>


====
